---- MODULE Spec2Model ----
(***************************************************************************)
(* CF-X Router (services/cfx-router): the chat-completions request         *)
(* pipeline and the components it coordinates, as a state machine.         *)
(*                                                                         *)
(*   cfx/concurrency.py    ConcurrencyManager   (per-user stream ledger)   *)
(*   cfx/rate_limit.py     RateLimitManager / SupabaseRateLimiter          *)
(*   cfx/litellm_client.py CircuitBreaker / LiteLLMClient                  *)
(*   main.py               require_auth, check_rate_limit,                 *)
(*                         chat_completions                                *)
(*                                                                         *)
(* A task is one asyncio task of the server.  An action is the code a task *)
(* runs between two points where it can be suspended: an await, or a call  *)
(* of the persistent store, which other gateway tasks and worker processes *)
(* share.  pc[t] is the task's position, ret[t] the caller a called method *)
(* returns to, loc[t] its local variables.  A method that returns runs its *)
(* caller on to the caller's next await in the same action.                *)
(*                                                                         *)
(* Specifications:                                                         *)
(*   Spec         the request pipeline of main.py                          *)
(*   SpecLedger   tasks calling ConcurrencyManager directly                *)
(*   SpecQuota    tasks calling RateLimitManager.check_rate_limit directly *)
(*   SpecBreaker  calls of CircuitBreaker's methods and the clock          *)
(*   SpecQueue    BackgroundTaskQueue: start, enqueue, _worker, stop       *)
(*   SpecBearer   SecurityManager.extract_bearer_token on a header         *)
(*   SpecSse      format_sse_event, format_sse_done and parse_sse_stream   *)
(*   SpecRelay    stream_response of main.py over a stream of lines        *)
(*   SpecDays     the quota check across the process's local midnight      *)
(*   SpecLogging  stream_response, log_request and the queue's worker      *)
(*   SpecCleanup  acquire, release and cleanup_user of the ledger          *)
(*   SpecRestart  BackgroundTaskQueue with start and stop at any time      *)
(*   SpecAuthHash validate_key_from_header, authenticate, hash_api_key     *)
(*                                                                         *)
(* A text is the sequence of its characters.                               *)
(***************************************************************************)
EXTENDS Integers, Sequences, FiniteSets, TLC

VARIABLES
    pc,               \* task -> position in the code
    ret,              \* task -> the caller's position a called method returns to
    loc,              \* task -> local variables of the running call
    active_streams,   \* ConcurrencyManager._active_streams
    lock,             \* ConcurrencyManager._lock: the holder, or NoTask
    cap_seen,         \* history: user -> caps get_user_cap has resolved
    usage_counters,   \* store: user -> request_count of today's row, or None
    configured,       \* SUPABASE_URL and SUPABASE_SERVICE_ROLE_KEY are set
    day_offset,       \* date.today() minus the UTC date (process time zone)
    completed,        \* history: user -> quota checks returned by the store path
    calls,            \* history: calls started so far
    queue,            \* BackgroundTaskQueue.queue: the log entries waiting
    circuit_breaker,  \* LiteLLMClient.circuit_breaker: the CircuitBreaker's fields
    now,              \* datetime.now(), in seconds
    consec,           \* history: failures recorded since the last recorded success
    last_op,          \* history: the CircuitBreaker method called last, with is_open's value
    maxlen,           \* BackgroundTaskQueue.queue.maxlen
    running,          \* BackgroundTaskQueue.running
    worker_task,      \* BackgroundTaskQueue.worker_task: where _worker stands, or "none"
    old_workers,      \* the _worker tasks start() has replaced: where each stands
    lifespan,         \* where the startup and shutdown handlers of main.py stand
    offered,          \* history: calls of enqueue so far
    returned,         \* history: what the last call of enqueue returned
    started,          \* history: the tasks _worker has awaited, in order
    outcomes,         \* history: how the awaited tasks ended, in order
    authorization_header,  \* extract_bearer_token: its argument
    api_key,          \* extract_bearer_token: the value returned, once it returned
    key_hash,         \* authenticate: the digest it looks up, once it is computed
    data,             \* the objects given to format_sse_event, in order
    wire,             \* the text format_sse_event and format_sse_done produced
    events            \* what parse_sse_stream yielded for the lines of wire

\* ------------------------------------------------------------------------
\* Bounds of the model
\* ------------------------------------------------------------------------

\* Number of concurrently running tasks.
NumTasks == 2

\* Quota checks per run, of this process and of another router (the counters
\* are unbounded in the code).
MaxChecks == 4

\* The UTC date of the run, in days since the epoch.
UtcDay == 20000

\* Requests received per run.
MaxRequests == 2

\* The clock stops here, and failure_count (unbounded in the code) here.
MaxTime == 122
MaxFailureCount == 7

\* Calls of the upstream client per run.
MaxClientCalls == 6

\* The time from which every answer of the upstream is a success.
RecoveredAt == 2

\* The capacity the queue is constructed with, and the calls of enqueue per
\* run.
QueueCap == 2
MaxEnqueues == 4

\* The calls of start() that replace a worker task that has not ended.
MaxRestarts == 2

\* The length of the tokens that follow the scheme of a header.
MaxTokenLen == 3

\* The number of lines the upstream delivers for one streaming request.
MaxLines == 3

Tasks == 1..NumTasks

\* ------------------------------------------------------------------------
\* Program constants
\* ------------------------------------------------------------------------

\* ConcurrencyManager.default_cap: STREAMING_CONCURRENCY_CAP, default "2".
default_cap == 2

\* plan_caps of get_user_cap.
plan_cap_starter == 1
plan_cap_pro == 2
plan_cap_agency == 5

\* RateLimitManager.default_daily_limit: DAILY_REQUEST_LIMIT, default "1000".
default_daily_limit == 1000

\* plan_limits of get_daily_limit.
plan_limit_starter == 1000
plan_limit_pro == 4000
plan_limit_agency == 15000

SecondsPerDay == 86400

\* CircuitBreaker(failure_threshold=5, recovery_timeout=60) of LiteLLMClient.
failure_threshold == 5
recovery_timeout == 60

\* "Require 2 successes to close"
successes_to_close == 2

\* ------------------------------------------------------------------------
\* The users table of the store (external data, fixed during a run).
\* A field that is NULL in the row is None.
\* ------------------------------------------------------------------------

None == -1

Users == {"u1", "u2"}

NoUser == "nobody"

UsersTable ==
    [u \in Users |->
        IF u = "u1"
        THEN [daily_limit |-> 1, plan |-> "starter", streaming_concurrency_cap |-> None]
        ELSE [daily_limit |-> None, plan |-> "pro", streaming_concurrency_cap |-> 1]]

\* ------------------------------------------------------------------------
\* Variable groups and helpers
\* ------------------------------------------------------------------------

taskVars == <<pc, ret, loc>>
ledgerVars == <<active_streams, lock, cap_seen>>
storeVars == <<usage_counters, completed>>
envVars == <<configured, day_offset, calls>>
breakerVars == <<circuit_breaker, now, consec, last_op>>
workerVars == <<maxlen, running, worker_task, old_workers, lifespan, offered,
                returned, started, outcomes>>
textVars == <<authorization_header, api_key, key_hash, data, wire, events>>

vars == <<pc, ret, loc, active_streams, lock, cap_seen, usage_counters,
          completed, configured, day_offset, calls, queue, circuit_breaker,
          now, consec, last_op, maxlen, running, worker_task, old_workers,
          lifespan,
          offered, returned, started, outcomes, authorization_header,
          api_key, key_hash, data, wire, events>>

Max(a, b) == IF a >= b THEN a ELSE b

NoTask == 0

NoModel == "none"

\* No answer yet.
NoAnswer ==
    [status |-> 0, error_type |-> "none", log |-> << >>, headers |-> FALSE]

\* The local variables of a call, all unset.
\* last_error = None
NoError == [kind |-> "none", status |-> 0]

LocInit ==
    [user |-> NoUser, called |-> "none",
     \* acquire_stream_slot / release_stream_slot
     current_count |-> 0, cap |-> 0, slot_acquired |-> FALSE,
     \* check_rate_limit / check_and_increment
     limit |-> 0, request_count |-> 0, in_except |-> FALSE,
     allowed |-> FALSE, remaining |-> 0, reset_timestamp |-> 0,
     \* today_utc of check_rate_limit, passed on as day_utc
     day_utc |-> 0,
     \* history: the position of the check among those the store answered
     seq |-> 0,
     \* history of the call
     pre_count |-> 0, post_stored |-> None, rpc_raised |-> FALSE,
     store_raised |-> "none", fail_open |-> FALSE, releases |-> 0,
     \* require_auth
     authenticated |-> FALSE, error |-> "none", code |-> "none",
     \* chat_completions of main.py
     valid |-> FALSE, stage |-> "none", model_used |-> NoModel,
     \* the X-CFX-Stage header as received, litellm_request["model"]
     x_cfx_stage |-> "unread", payload_model |-> NoModel,
     stream |-> FALSE, is_streaming |-> FALSE,
     status |-> 0, error_type |-> "none", headers |-> << >>,
     \* LiteLLMClient.chat_completions
     attempt |-> 0, last_error |-> NoError,
     up_result |-> "none", up_status |-> 0,
     \* the answer `except Exception` of the streaming branch ends in
     pending |-> NoAnswer,
     \* stream_response: the lines `stream` has still to deliver, the frames
     \* yielded to the client
     lines |-> << >>, sent |-> << >>,
     \* history of the request
     invoked |-> << >>, logged |-> 0, failure |-> "none",
     upstream |-> << >>, stream_end |-> "none"]

\* ------------------------------------------------------------------------
\* cfx/concurrency.py: ConcurrencyManager
\* ------------------------------------------------------------------------

\* plan_caps.get(plan, self.default_cap)
plan_caps(plan) ==
    CASE plan = "starter" -> plan_cap_starter
      [] plan = "pro"     -> plan_cap_pro
      [] plan = "agency"  -> plan_cap_agency
      [] OTHER            -> default_cap

\* get_user_cap: store_ok is whether the lookup in the users table answered;
\* a raising lookup is swallowed and the default cap is returned.
get_user_cap(u, store_ok) ==
    IF store_ok
    THEN LET user_data == UsersTable[u] IN
         IF user_data.streaming_concurrency_cap # None
            /\ user_data.streaming_concurrency_cap # 0
         THEN user_data.streaming_concurrency_cap
         ELSE plan_caps(user_data.plan)
    ELSE default_cap

\* The test `current_count >= cap` of acquire_stream_slot.
MutCapReached(current_count, cap) == current_count > cap
CapReached(current_count, cap) == current_count >= cap

\* The count release_stream_slot stores.
ReleasedCount(current_count) ==
    IF current_count > 0 THEN current_count - 1 ELSE 0

\* ------------------------------------------------------------------------
\* cfx/rate_limit.py: RateLimitManager, SupabaseRateLimiter
\* ------------------------------------------------------------------------

\* plan_limits.get(plan, self.default_daily_limit)
plan_limits(plan) ==
    CASE plan = "starter" -> plan_limit_starter
      [] plan = "pro"     -> plan_limit_pro
      [] plan = "agency"  -> plan_limit_agency
      [] OTHER            -> default_daily_limit

\* get_daily_limit: a raising lookup is swallowed and the default returned.
get_daily_limit(u, store_ok) ==
    IF store_ok
    THEN LET user_data == UsersTable[u] IN
         IF user_data.daily_limit # None /\ user_data.daily_limit # 0
         THEN user_data.daily_limit
         ELSE plan_limits(user_data.plan)
    ELSE default_daily_limit

\* today_utc = date.today(): the date of the process's local time zone.
date_today == UtcDay + day_offset

\* reset_timestamp: 00:00 UTC of day_utc + timedelta(days=1), epoch seconds.
ResetTimestamp(day_utc) == (day_utc + 1) * SecondsPerDay

\* allowed = request_count <= limit
MutAllowed(request_count, limit) == request_count < limit
Allowed(request_count, limit) == request_count <= limit

\* remaining = max(0, limit - request_count)
Remaining(request_count, limit) == Max(0, limit - request_count)

\* remaining of the fail-open result: limit - 1
MutFailOpenRemaining(limit) == limit
FailOpenRemaining(limit) == limit - 1

\* request_count of the user's row of today, 0 when there is no row.
RowCount(u) == IF usage_counters[u] = None THEN 0 ELSE usage_counters[u]

\* new_count = current_count + 1
NewCount(current_count) == current_count + 1

\* The RateLimitResult built after the store answered.
NormalResult(l, request_count, allowed) ==
    [l EXCEPT !.request_count = request_count,
              !.allowed = allowed,
              !.remaining = Remaining(request_count, l.limit),
              !.seq = completed[l.user] + 1,
              !.called = "check"]

\* The RateLimitResult of the two fail-open handlers.
FailOpenResult(l) ==
    [l EXCEPT !.allowed = TRUE,
              !.remaining = FailOpenRemaining(l.limit),
              !.fail_open = TRUE,
              !.called = "check"]

\* How a call of the store can end.  An insert of a row whose (user_id, day)
\* exists violates the unique constraint and raises.
StoreOutcomes == {"ok", "unavailable"}

\* How the first insert can end: as any call, or, when the row exists, with
\* the conflict answered without data (`if insert_response.data` is false)
\* instead of raised.
InsertOutcomes == StoreOutcomes \cup {"no_data"}

\* ------------------------------------------------------------------------
\* cfx/litellm_client.py: CircuitBreaker, LiteLLMClient
\* ------------------------------------------------------------------------

\* CircuitBreaker.__init__
BreakerInit ==
    [state |-> "closed", failure_count |-> 0, last_failure_time |-> None,
     success_count |-> 0]

\* record_success
MutRecordSuccess(cb) ==
    IF cb.state = "half_open"
    THEN LET n == cb.success_count + 1 IN
         IF n >= successes_to_close
         THEN [cb EXCEPT !.state = "closed", !.failure_count = 0,
                         !.success_count = 0]
         ELSE [cb EXCEPT !.success_count = n]
    ELSE cb
MutRecordSuccessKeep(cb) ==
    IF cb.state = "half_open"
    THEN LET n == cb.success_count + 1 IN
         IF n >= successes_to_close
         THEN [cb EXCEPT !.state = "closed", !.success_count = 0]
         ELSE [cb EXCEPT !.success_count = n]
    ELSE IF cb.state = "closed"
         THEN [cb EXCEPT !.failure_count = 0]
         ELSE cb
record_success(cb) ==
    IF cb.state = "half_open"
    THEN LET n == cb.success_count + 1 IN
         IF n >= successes_to_close
         THEN [cb EXCEPT !.state = "closed", !.failure_count = 0,
                         !.success_count = 0]
         ELSE [cb EXCEPT !.success_count = n]
    ELSE IF cb.state = "closed"
         THEN [cb EXCEPT !.failure_count = 0]
         ELSE cb

\* record_failure, called at time `at`
MutRecordFailure(cb, at) ==
    LET n == cb.failure_count + 1 IN
    [cb EXCEPT !.failure_count = n,
               !.last_failure_time = at,
               !.state = IF n = failure_threshold THEN "open" ELSE @]
record_failure(cb, at) ==
    LET n == cb.failure_count + 1 IN
    [cb EXCEPT !.failure_count = n,
               !.last_failure_time = at,
               !.state = IF n >= failure_threshold THEN "open" ELSE @]

\* is_open, called at time `at`: the returned value and the fields after it
MutIsOpen(cb, at) ==
    IF cb.state = "open"
    THEN IF cb.last_failure_time # None
            /\ at - cb.last_failure_time > recovery_timeout
         THEN [value |-> FALSE,
               cb |-> [cb EXCEPT !.state = "half_open", !.success_count = 0]]
         ELSE [value |-> TRUE, cb |-> cb]
    ELSE [value |-> FALSE, cb |-> cb]
is_open(cb, at) ==
    IF cb.state = "open"
    THEN IF cb.last_failure_time # None
            /\ at - cb.last_failure_time >= recovery_timeout
         THEN [value |-> FALSE,
               cb |-> [cb EXCEPT !.state = "half_open", !.success_count = 0]]
         ELSE [value |-> TRUE, cb |-> cb]
    ELSE [value |-> FALSE, cb |-> cb]

\* The breaker after n failures in a row recorded at time `at`.
RECURSIVE FailedTimes(_, _)
FailedTimes(n, at) ==
    IF n = 0 THEN BreakerInit ELSE record_failure(FailedTimes(n - 1, at), at)

\* can_proceed
MutCanProceedAlways(cb, at) ==
    LET r == is_open(cb, at) IN [value |-> TRUE, cb |-> r.cb]
MutCanProceedForgets(cb, at) ==
    LET r == is_open(cb, at) IN [value |-> ~r.value, cb |-> cb]
can_proceed(cb, at) ==
    LET r == is_open(cb, at) IN [value |-> ~r.value, cb |-> r.cb]

\* The history entry of an is_open() query that returned `value`.
IsOpenOp(value) == IF value THEN "is_open:true" ELSE "is_open:false"

\* max_retries of chat_completions
max_retries == 1

\* `attempt < max_retries`
MutMayRetry(attempt) == attempt <= max_retries
MayRetry(attempt) == attempt < max_retries

\* How one attempt can end: an answer with a status (raise_for_status raises
\* HTTPStatusError from 400 on), TimeoutException or ConnectError, or another
\* exception of the transport.
UpstreamStatuses == {200, 500, 503}

UpstreamOutcomes ==
    {[kind |-> "response", status |-> s] : s \in UpstreamStatuses}
      \cup {[kind |-> "timeout", status |-> 0],
            [kind |-> "transport_error", status |-> 0]}

\* status_code in (502, 503, 504)
Transient(status_code) == status_code \in {502, 503, 504}

\* The response after `return stream_generator()` has left the block
\* `async with self.client.stream(...) as response`: the block closes it.
ResponseOpenAfterReturn == FALSE

\* ------------------------------------------------------------------------
\* cfx/auth.py, cfx/config.py, cfx/logger.py, cfx/background.py
\* ------------------------------------------------------------------------

\* What a request presents: no usable Authorization header, a key the
\* api_keys table has no active row for, a lookup that raises, or the active
\* key of a user.
AuthInputs == {"no_header", "unknown_key", "store_error"} \cup Users

\* validate_key_from_header, authenticate
validate_key_from_header(input) ==
    CASE input = "no_header" ->
           [authenticated |-> FALSE, user_id |-> NoUser,
            error |-> "Missing or invalid Authorization header"]
      [] input # "no_header" /\ ~configured ->
           [authenticated |-> FALSE, user_id |-> NoUser,
            error |-> "Authentication service unavailable"]
      [] input = "store_error" /\ configured ->
           [authenticated |-> FALSE, user_id |-> NoUser,
            error |-> "Authentication service error"]
      [] input = "unknown_key" /\ configured ->
           [authenticated |-> FALSE, user_id |-> NoUser,
            error |-> "Invalid API key"]
      [] OTHER ->
           [authenticated |-> TRUE, user_id |-> input, error |-> "none"]

\* Config.get_default_stage, Config.get_model_for_stage of the default table.
get_default_stage == "plan"

get_model_for_stage(stage) ==
    CASE stage = "plan"   -> "claude-3-5-sonnet-20241022"
      [] stage = "code"   -> "deepseek-chat"
      [] stage = "review" -> "gpt-4o-mini"
      [] OTHER            -> NoModel

\* BackgroundTaskQueue(max_queue_size=1000)
max_queue_size == 1000

\* deque.append on a deque that holds maxlen items discards the item at the
\* other end.
DequeAppend(q, entry) ==
    IF Len(q) >= maxlen THEN Append(Tail(q), entry) ELSE Append(q, entry)

\* BackgroundTaskQueue.enqueue: the queue after the call and the value returned.
MutEnqueue(q, entry) == [queue |-> DequeAppend(q, entry), returned |-> Len(q) < maxlen]
enqueue(q, entry) ==
    IF Len(q) >= maxlen
    THEN [queue |-> q, returned |-> FALSE]
    ELSE [queue |-> DequeAppend(q, entry), returned |-> TRUE]

\* RequestLogger.log_request for each entry of a sequence of entries, in order.
RECURSIVE enqueue_all(_, _)
enqueue_all(q, entries) ==
    IF entries = << >> THEN q
    ELSE enqueue_all(enqueue(q, Head(entries)).queue, Tail(entries))

\* `while self.running` of _worker.
MutWorkerGoesOn(is_running) == TRUE
WorkerGoesOn(is_running) == is_running

\* How an awaited task can end, and where _worker stands after it:
\* `except Exception` logs the error and the loop goes on.
TaskOutcomes == {"returned", "raised"}

MutAfterTask(outcome) == IF outcome = "raised" THEN "ended" ELSE "loop"
AfterTask(outcome) == "loop"

\* ------------------------------------------------------------------------
\* main.py: require_auth, check_rate_limit, chat_completions
\* ------------------------------------------------------------------------

\* chat_completions reads `start_time`, a name no statement assigns, and its
\* except clauses name `httpx`, a module main.py does not import: evaluating
\* either raises NameError.
start_time_defined == FALSE
httpx_imported == FALSE

\* "X-RateLimit-Limit": "2" of the answer to a refused slot.
SlotLimitHeader == 2

\* The headers of an answer; a header that is not sent is None.
NoHeaders ==
    [X_RateLimit_Limit |-> None, X_RateLimit_Remaining |-> None,
     X_RateLimit_Reset |-> None, Retry_After |-> None,
     X_CFX_Stage |-> "none", X_CFX_Model_Used |-> NoModel]

\* The headers of the 429 of check_rate_limit.
QuotaDeniedHeaders(l) ==
    [NoHeaders EXCEPT !.X_RateLimit_Limit = l.limit,
                      !.X_RateLimit_Remaining = l.remaining,
                      !.X_RateLimit_Reset = l.reset_timestamp,
                      !.Retry_After = l.reset_timestamp]

\* The headers of the 429 of a refused slot.
SlotDeniedHeaders ==
    [NoHeaders EXCEPT !.X_RateLimit_Limit = SlotLimitHeader,
                      !.X_RateLimit_Remaining = 0]

\* `headers` of chat_completions ("Prepare headers").
PreparedHeaders(l) ==
    [NoHeaders EXCEPT !.X_RateLimit_Limit = l.limit,
                      !.X_RateLimit_Remaining = l.remaining,
                      !.X_RateLimit_Reset = l.reset_timestamp,
                      !.X_CFX_Stage = l.stage,
                      !.X_CFX_Model_Used = l.model_used]

\* The "code" of the error require_auth raises for a failed authentication.
MutAuthErrorCode(auth_result) ==
    IF auth_result.error = "Invalid API key" THEN "unknown_key" ELSE "invalid_api_key"
AuthErrorCode(auth_result) == "invalid_api_key"

\* `if not auth_result.authenticated` of require_auth, negated.
AuthPasses(auth_result) == auth_result.authenticated

\* `if not rate_limit_result.allowed` of check_rate_limit, negated.
MutQuotaPasses(l) == TRUE
QuotaPasses(l) == l.allowed

\* `if is_streaming` before acquire_stream_slot.
MutNeedsSlot(is_streaming) == TRUE
NeedsSlot(is_streaming) == is_streaming

\* The "model" field a client puts into its body.
ClientModel == "gpt-4"

\* The request bodies: not JSON, JSON that validate_request refuses, and valid
\* bodies without and with "stream": true.
Bodies ==
    {[json |-> FALSE, valid |-> FALSE, stream |-> FALSE, model |-> NoModel],
     [json |-> TRUE, valid |-> FALSE, stream |-> FALSE, model |-> ClientModel],
     [json |-> TRUE, valid |-> TRUE, stream |-> FALSE, model |-> ClientModel],
     [json |-> TRUE, valid |-> TRUE, stream |-> TRUE, model |-> ClientModel]}

\* transform_request_to_litellm: the body with "model" replaced by
\* model_override when one is given.
MutTransformRequestToLitellm(request_body, model_override) ==
    [request_body EXCEPT
        !.model = IF request_body.model # NoModel THEN @ ELSE model_override]

transform_request_to_litellm(request_body, model_override) ==
    [request_body EXCEPT
        !.model = IF model_override # NoModel THEN model_override ELSE @]

\* The values of the X-CFX-Stage header; "" is the header left out.
StageHeaders == {"", "code", "direct", "bogus"}

\* The framework's answer to an exception no except clause caught.
Unhandled ==
    [status |-> 500, error_type |-> "unhandled", log |-> << >>, headers |-> FALSE]

\* The except clauses of chat_completions for an exception of class exc that
\* left the try block (upstream_status: the status of an HTTPStatusError).
ExceptClauses(exc, upstream_status) ==
    IF exc = "CircuitBreakerOpenError"
    THEN IF start_time_defined
         THEN [status |-> 503, error_type |-> "service_unavailable_error",
               log |-> <<"error">>, headers |-> TRUE]
         ELSE Unhandled
    ELSE IF ~httpx_imported \/ ~start_time_defined
    THEN Unhandled
    ELSE CASE exc = "HTTPStatusError" /\ upstream_status = 503 ->
                [status |-> 503, error_type |-> "service_unavailable_error",
                 log |-> <<"error">>, headers |-> TRUE]
           [] exc = "HTTPStatusError" /\ upstream_status # 503 ->
                [status |-> 502, error_type |-> "upstream_error",
                 log |-> <<"error">>, headers |-> TRUE]
           [] exc = "TimeoutException" ->
                [status |-> 503, error_type |-> "service_unavailable_error",
                 log |-> <<"error">>, headers |-> TRUE]
           [] OTHER ->
                [status |-> 500, error_type |-> "internal_error",
                 log |-> <<"error">>, headers |-> TRUE]

\* The non-streaming branch after chat_completions of the client returned.
NonStreamingSuccess ==
    IF start_time_defined
    THEN [status |-> 200, error_type |-> "none", log |-> <<"success">>, headers |-> TRUE]
    ELSE ExceptClauses("NameError", 0)

\* `except Exception as e` of the streaming branch after the release: the
\* error is logged and raised again.
StreamingFailure(exc, upstream_status) ==
    IF start_time_defined
    THEN [ExceptClauses(exc, upstream_status) EXCEPT !.log = <<"error">> \o @]
    ELSE ExceptClauses("NameError", 0)

\* ------------------------------------------------------------------------
\* Texts: str methods, json.dumps and json.loads
\* ------------------------------------------------------------------------

NL == "\n"
Quote == "\""
Backslash == "\\"

\* The characters str.strip() removes.
Whitespace == {" ", NL, "\t"}

\* s.startswith(prefix)
StartsWith(s, prefix) ==
    Len(s) >= Len(prefix) /\ SubSeq(s, 1, Len(prefix)) = prefix

\* s[n:]
From(s, n) == SubSeq(s, n + 1, Len(s))

\* s.strip()
RECURSIVE Strip(_)
Strip(s) ==
    IF s = << >> THEN s
    ELSE IF Head(s) \in Whitespace THEN Strip(Tail(s))
    ELSE IF s[Len(s)] \in Whitespace THEN Strip(SubSeq(s, 1, Len(s) - 1))
    ELSE s

\* The lines of a text, without their line ends.
RECURSIVE Lines(_)
Lines(s) ==
    IF s = << >> THEN << >>
    ELSE IF \E i \in 1..Len(s) : s[i] = NL
    THEN LET i == CHOOSE i \in 1..Len(s) : s[i] = NL /\ \A j \in 1..i - 1 : s[j] # NL
         IN <<SubSeq(s, 1, i - 1)>> \o Lines(From(s, i))
    ELSE <<s>>

\* JSON values: integers of one digit, strings, true, and objects as the
\* sequence of their <<key, value>> items.
JInt(n) == [kind |-> "int", val |-> n]
JStr(s) == [kind |-> "str", val |-> s]
JTrue == [kind |-> "bool", val |-> TRUE]
JObj(items) == [kind |-> "obj", val |-> items]

DigitChars == <<"0", "1", "2", "3", "4", "5", "6", "7", "8", "9">>

\* json.dumps(data) with its default separators.
RECURSIVE json_dumps(_)
json_dumps(v) ==
    LET EscapeChar(c) ==
            CASE c = Quote     -> <<Backslash, Quote>>
              [] c = Backslash -> <<Backslash, Backslash>>
              [] c = NL        -> <<Backslash, "n">>
              [] OTHER         -> <<c>>
        RECURSIVE Escape(_)
        Escape(str) ==
            IF str = << >> THEN << >>
            ELSE EscapeChar(Head(str)) \o Escape(Tail(str))
        Quoted(str) == <<Quote>> \o Escape(str) \o <<Quote>>
        RECURSIVE Items(_)
        Items(items) ==
            IF items = << >> THEN << >>
            ELSE Quoted(items[1][1]) \o <<":", " ">> \o json_dumps(items[1][2])
                   \o (IF Len(items) > 1
                       THEN <<",", " ">> \o Items(Tail(items)) ELSE << >>)
    IN CASE v.kind = "int"  -> <<DigitChars[v.val + 1]>>
         [] v.kind = "bool" -> <<"t", "r", "u", "e">>
         [] v.kind = "str"  -> Quoted(v.val)
         [] v.kind = "obj"  -> <<"{">> \o Items(v.val) \o <<"}">>

\* json.loads(s): ok is false where json.loads raises JSONDecodeError.
NotJson == [ok |-> FALSE, val |-> JTrue, next |-> 0]

RECURSIVE ParseValue(_, _)
ParseValue(s, i) ==
    LET RECURSIVE SkipWs(_)
        SkipWs(j) == IF j <= Len(s) /\ s[j] \in Whitespace THEN SkipWs(j + 1) ELSE j
        At(j, c) == j <= Len(s) /\ s[j] = c
        \* the characters of a string from j to its closing quote
        RECURSIVE Chars(_, _)
        Chars(j, acc) ==
            IF j > Len(s) \/ s[j] = NL THEN NotJson
            ELSE IF s[j] = Quote THEN [ok |-> TRUE, val |-> JStr(acc), next |-> j + 1]
            ELSE IF s[j] = Backslash
            THEN IF At(j + 1, "n") THEN Chars(j + 2, Append(acc, NL))
                 ELSE IF At(j + 1, Quote) THEN Chars(j + 2, Append(acc, Quote))
                 ELSE IF At(j + 1, Backslash) THEN Chars(j + 2, Append(acc, Backslash))
                 ELSE NotJson
            ELSE Chars(j + 1, Append(acc, s[j]))
        \* the items of an object from the key at j to its closing brace
        RECURSIVE Members(_, _)
        Members(j, acc) ==
            IF ~At(j, Quote) THEN NotJson
            ELSE LET key == Chars(j + 1, << >>) IN
                 IF ~key.ok \/ ~At(SkipWs(key.next), ":") THEN NotJson
                 ELSE LET value == ParseValue(s, SkipWs(SkipWs(key.next) + 1)) IN
                      IF ~value.ok THEN NotJson
                      ELSE LET k == SkipWs(value.next)
                               items == Append(acc, <<key.val.val, value.val>>)
                           IN IF At(k, "}")
                              THEN [ok |-> TRUE, val |-> JObj(items), next |-> k + 1]
                              ELSE IF At(k, ",") THEN Members(SkipWs(k + 1), items)
                              ELSE NotJson
    IN CASE i > Len(s) -> NotJson
         [] At(i, Quote) -> Chars(i + 1, << >>)
         [] At(i, "{") ->
              IF At(SkipWs(i + 1), "}")
              THEN [ok |-> TRUE, val |-> JObj(<< >>), next |-> SkipWs(i + 1) + 1]
              ELSE Members(SkipWs(i + 1), << >>)
         [] \E d \in 0..9 : At(i, DigitChars[d + 1]) ->
              IF \E d \in 0..9 : At(i + 1, DigitChars[d + 1]) THEN NotJson
              ELSE [ok |-> TRUE,
                    val |-> JInt(CHOOSE d \in 0..9 : s[i] = DigitChars[d + 1]),
                    next |-> i + 1]
         [] StartsWith(From(s, i - 1), <<"t", "r", "u", "e">>) ->
              [ok |-> TRUE, val |-> JTrue, next |-> i + 4]
         [] OTHER -> NotJson

json_loads(s) ==
    LET t == Strip(s)
        r == ParseValue(t, 1)
    IN IF r.ok /\ r.next = Len(t) + 1 THEN r ELSE NotJson

\* ------------------------------------------------------------------------
\* cfx/openai_compat.py: format_sse_event, format_sse_done, parse_sse_stream
\* ------------------------------------------------------------------------

DataPrefix == <<"d", "a", "t", "a", ":", " ">>
DoneToken == <<"[", "D", "O", "N", "E", "]">>

\* f"data: {json_str}\n\n"
MutFormatSseEvent(d) == <<"d", "a", "t", "a", ":">> \o json_dumps(d) \o <<NL, NL>>
format_sse_event(d) == DataPrefix \o json_dumps(d) \o <<NL, NL>>

format_sse_done == DataPrefix \o DoneToken \o <<NL, NL>>

\* The value of events while parse_sse_stream has not run.
Unparsed == <<[kind |-> "pending", val |-> 0]>>

\* {"done": True}
DoneEvent == JObj(<< <<<<"d", "o", "n", "e">>, JTrue>> >>)

\* One turn of the loop of parse_sse_stream: what it yields for a line.
ParseLine(line) ==
    IF line = << >> THEN << >>
    ELSE IF StartsWith(line, DataPrefix)
    THEN LET data_str == Strip(From(line, 6)) IN
         IF data_str = DoneToken THEN <<DoneEvent>>
         ELSE LET r == json_loads(data_str) IN
              IF r.ok THEN <<r.val>> ELSE << >>
    ELSE << >>

RECURSIVE parse_sse_stream(_)
parse_sse_stream(stream) ==
    IF stream = << >> THEN << >>
    ELSE ParseLine(Head(stream)) \o parse_sse_stream(Tail(stream))

\* event.get("done") of stream_response, as a condition.
IsDone(event) ==
    \E i \in 1..Len(event.val) :
        /\ event.val[i][1] = <<"d", "o", "n", "e">>
        /\ event.val[i][2] \notin {JInt(0), JStr(<< >>)}

\* What stream_response yields to the client for an event.
MutRelayed(event) ==
    IF IsDone(event) THEN <<format_sse_done>>
    ELSE <<format_sse_event(event), format_sse_event(event)>>
Relayed(event) ==
    IF IsDone(event) THEN <<format_sse_done>> ELSE <<format_sse_event(event)>>

\* The lines an upstream can deliver: data lines with an object, the done
\* line, a data line that is not JSON, a comment, a line of another field
\* and an empty line.
UpstreamLines ==
    {DataPrefix \o json_dumps(JObj(<< <<<<"a">>, JInt(1)>> >>)),
     DataPrefix \o json_dumps(JObj(<< <<<<"b">>, JStr(<<"x">>)>> >>)),
     DataPrefix \o DoneToken,
     DataPrefix \o <<"{", "a">>,
     <<":", " ", "p">>,
     <<"i", "d", ":", " ", "1">>,
     << >>}

RECURSIVE StreamsUpTo(_)
StreamsUpTo(n) ==
    IF n = 0 THEN {<< >>}
    ELSE LET shorter == StreamsUpTo(n - 1) IN
         shorter \cup {Append(s, l) : s \in shorter, l \in UpstreamLines}

\* Objects given to format_sse_event: empty, with a number, with strings
\* that hold a line end, a quote and a backslash, with the key "done", with
\* two items, and with an object inside.
JsonObjects ==
    {JObj(<< >>),
     JObj(<< <<<<"a">>, JInt(1)>> >>),
     JObj(<< <<<<"a">>, JStr(<<"x", NL, "y">>)>> >>),
     JObj(<< <<<<"a">>, JStr(<<Quote, " ", Backslash>>)>> >>),
     JObj(<< <<<<"d", "o", "n", "e">>, JTrue>> >>),
     JObj(<< <<<<"a">>, JInt(0)>>, <<<<"b">>, JStr(<<"x", " ">>)>> >>),
     JObj(<< <<<<"u">>, JObj(<< <<<<"a">>, JInt(7)>> >>)>> >>),
     JObj(<< <<<<"a", " ">>, JStr(<< >>)>>, <<<<"b">>, JTrue>> >>)}

\* ------------------------------------------------------------------------
\* cfx/security.py: SecurityManager.extract_bearer_token
\* ------------------------------------------------------------------------

BearerPrefix == <<"B", "e", "a", "r", "e", "r", " ">>

\* None where a text is expected, and the value of a call that has not
\* returned.
Absent == <<"None">>
Pending == <<"pending">>

MutExtractBearerToken(header) ==
    IF header = Absent \/ header = << >> THEN Absent
    ELSE IF ~StartsWith(header, BearerPrefix) THEN Absent
    ELSE Strip(From(header, 7))
extract_bearer_token(header) ==
    IF header = Absent \/ header = << >> THEN Absent
    ELSE IF ~StartsWith(header, BearerPrefix) THEN Absent
    ELSE LET token == Strip(From(header, 7)) IN
         IF token = << >> THEN Absent ELSE token

\* HASH_SALT and KEY_HASH_PEPPER of the environment.
HashSalt == <<"s">>
KeyHashPepper == <<"p">>

\* hash_api_key: the HMAC-SHA256 digest of "salt:api_key:pepper" under the
\* pepper, kept as the message it is the digest of (no two messages are
\* taken to collide).
hash_api_key(key) ==
    <<"hmac">> \o HashSalt \o <<":">> \o key \o <<":">> \o KeyHashPepper

\* authenticate up to the lookup: a leading "Bearer " is cut off the key and
\* the rest stripped, an empty key fails, otherwise the key is hashed.
authenticate(key) ==
    LET k == IF StartsWith(key, BearerPrefix) THEN Strip(From(key, 7)) ELSE key
    IN IF k = << >> THEN Absent ELSE hash_api_key(k)

\* The headers a request can carry: none, or a scheme followed by a token.
RECURSIVE TextsUpTo(_, _)
TextsUpTo(alphabet, n) ==
    IF n = 0 THEN {<< >>}
    ELSE LET shorter == TextsUpTo(alphabet, n - 1) IN
         shorter \cup {Append(s, c) : s \in shorter, c \in alphabet}

Tokens == TextsUpTo({"k", " "}, MaxTokenLen)

Schemes ==
    {BearerPrefix, <<"b", "e", "a", "r", "e", "r", " ">>,
     <<"B", "e", "a", "r", "e", "r">>, <<"B", "a", "s", "i", "c", " ">>, << >>}

Headers == {Absent} \cup {scheme \o t : scheme \in Schemes, t \in Tokens}

\* ------------------------------------------------------------------------
\* Control: going on, calling, answering, returning to the caller
\* ------------------------------------------------------------------------

\* Task t goes on to position p of the running method with locals l.
Goto(t, l, p) ==
    /\ loc' = [loc EXCEPT ![t] = l]
    /\ pc' = [pc EXCEPT ![t] = p]
    /\ UNCHANGED <<ret, queue>>

\* Task t calls the method that starts at position p; r names the caller.
Call(t, l, p, r) ==
    /\ loc' = [loc EXCEPT ![t] = l]
    /\ pc' = [pc EXCEPT ![t] = p]
    /\ ret' = [ret EXCEPT ![t] = r]
    /\ UNCHANGED queue

\* The caller keeps the RateLimitResult of check_rate_limit, the callee's
\* locals are gone.
AfterCheck(l) ==
    [l EXCEPT !.request_count = 0, !.current_count = 0, !.in_except = FALSE,
              !.pre_count = 0, !.post_stored = None, !.rpc_raised = FALSE,
              !.store_raised = "none", !.fail_open = FALSE, !.seq = 0,
              !.called = "none"]

\* The caller keeps slot_acquired of acquire_stream_slot.
AfterAcquire(l) ==
    [l EXCEPT !.current_count = 0, !.cap = 0, !.called = "none"]

\* The answer is built: the client's result is not used again.
AfterClient(l) ==
    [l EXCEPT !.attempt = 0, !.last_error = NoError, !.up_result = "none",
              !.up_status = 0, !.called = "none"]

\* The request of task t ends with answer r: its log entries are enqueued.
Respond(t, l, r) ==
    /\ loc' = [loc EXCEPT ![t] =
          [AfterClient(l) EXCEPT
              !.status = r.status,
              !.error_type = r.error_type,
              !.headers = IF r.headers THEN PreparedHeaders(l) ELSE NoHeaders,
              !.logged = @ + Len(r.log)]]
    /\ queue' = enqueue_all(queue,
                    [i \in 1..Len(r.log) |-> [user_id |-> l.user, status |-> r.log[i]]])
    /\ pc' = [pc EXCEPT ![t] = "done"]
    /\ UNCHANGED ret

\* check_rate_limit of main.py after the manager returned: 429 with the rate
\* limit headers when the result is not allowed, else the handler starts.
CheckRateLimitReturn(t, l) ==
    IF QuotaPasses(l)
    THEN Goto(t, AfterCheck(l), "handler")
    ELSE Goto(t, [l EXCEPT !.status = 429,
                           !.error_type = "rate_limit_error",
                           !.headers = QuotaDeniedHeaders(l)], "done")

\* chat_completions after acquire_stream_slot returned: a refused slot is
\* answered 429, otherwise the client is called.
AcquireReturn(t, l) ==
    IF ~l.slot_acquired
    THEN Goto(t, [l EXCEPT !.status = 429,
                           !.error_type = "rate_limit_error",
                           !.headers = SlotDeniedHeaders], "done")
    ELSE Call(t, [AfterAcquire(l) EXCEPT !.invoked = Append(@, "upstream")],
              "up_call", "client")

\* History: how the call of the client ended for the handler: the upstream
\* answered below 400 ("answered"), or the call raised after a status or
\* timeout the client retries ("transient") or after another status
\* ("permanent").
FailureClass(l) ==
    CASE l.up_result = "ok" -> "answered"
      [] l.up_result = "TimeoutException" -> "transient"
      [] l.up_result = "HTTPStatusError" /\ Transient(l.up_status) -> "transient"
      [] l.up_result = "HTTPStatusError" -> "permanent"
      [] OTHER -> "none"

\* chat_completions after the client returned or raised.  Streaming: the
\* StreamingResponse is returned around a generator that has not run yet, or
\* `except Exception` calls release_stream_slot, and what follows the release
\* depends on the exception only.  Non-streaming: the answer is built.
ClientReturn(t, k) ==
    LET l == [k EXCEPT !.failure = FailureClass(k)] IN
    CASE l.is_streaming /\ l.up_result = "ok" ->
           Goto(t, [AfterClient(l) EXCEPT !.status = 200,
                                          !.headers = PreparedHeaders(l)],
                "gen_created")
      [] l.is_streaming /\ l.up_result # "ok" ->
           Call(t, [AfterClient(l) EXCEPT
                       !.pending = StreamingFailure(l.up_result, l.up_status)],
                "rel_lock", "except")
      [] ~l.is_streaming /\ l.up_result = "ok" ->
           Respond(t, l, NonStreamingSuccess)
      [] OTHER ->
           Respond(t, l, ExceptClauses(l.up_result, l.up_status))

\* `except Exception` of the streaming branch after release_stream_slot
\* returned: the error is logged and raised to the except clauses.
ExceptReleased(t, l) ==
    Respond(t, [l EXCEPT !.pending = NoAnswer], l.pending)

\* The method task t runs returns with locals l; its caller runs on to its
\* next await.  A method called directly returns to "idle".
Return(t, l) ==
    CASE ret[t] = "check_rate_limit" -> CheckRateLimitReturn(t, l)
      [] ret[t] = "acquire"          -> AcquireReturn(t, l)
      [] ret[t] = "client"           -> ClientReturn(t, l)
      [] ret[t] = "except"           -> ExceptReleased(t, l)
      [] ret[t] = "finally"          -> Goto(t, l, "done")
      [] OTHER                       -> Goto(t, l, "idle")

\* Positions inside check_rate_limit.
QuotaPcs == {"q_limit", "q_rpc", "q_insert", "q_select", "q_update", "q_insert2"}

\* The store calls of the check are synchronous (`.execute()` is not awaited)
\* and get_daily_limit and check_and_increment never suspend: from the call
\* of check_rate_limit to its return no other task of the process runs.
EventLoopFree(t) == \A s \in Tasks \ {t} : pc[s] \notin QuotaPcs

\* ------------------------------------------------------------------------
\* Actions of cfx/concurrency.py
\* ------------------------------------------------------------------------

\* acquire_stream_slot, up to its await: take the lock, read the count.
AcquireEnter(t) ==
    /\ pc[t] = "acq_lock"
    /\ EventLoopFree(t)
    /\ lock = NoTask
    /\ lock' = t
    /\ Goto(t, [loc[t] EXCEPT !.current_count = active_streams[loc[t].user]],
            "acq_cap")
    /\ UNCHANGED <<workerVars, textVars, active_streams, cap_seen, storeVars,
                   envVars,
                   breakerVars>>

\* acquire_stream_slot, from the return of get_user_cap: compare, increment,
\* leave the lock, return.
AcquireDecide(t) ==
    /\ pc[t] = "acq_cap"
    /\ EventLoopFree(t)
    /\ lock = t
    /\ \E store_ok \in {TRUE, FALSE} :
         LET u == loc[t].user
             cap == get_user_cap(u, store_ok /\ configured)
             full == CapReached(loc[t].current_count, cap)
         IN /\ active_streams' =
                 IF full THEN active_streams
                 ELSE [active_streams EXCEPT ![u] = loc[t].current_count + 1]
            /\ cap_seen' = [cap_seen EXCEPT ![u] = @ \cup {cap}]
            /\ Return(t, [loc[t] EXCEPT !.cap = cap,
                                        !.slot_acquired = ~full,
                                        !.called = "acquire"])
    /\ lock' = NoTask
    /\ UNCHANGED <<workerVars, textVars, storeVars, envVars, breakerVars>>

\* release_stream_slot: the lock is taken, the count stored and the lock left
\* without an await in between.
ReleaseSlot(t) ==
    /\ pc[t] = "rel_lock"
    /\ EventLoopFree(t)
    /\ lock = NoTask
    /\ LET u == loc[t].user IN
         /\ active_streams' =
              [active_streams EXCEPT ![u] = ReleasedCount(active_streams[u])]
         /\ Return(t, [loc[t] EXCEPT !.called = "release",
                                     !.releases = @ + 1])
    /\ UNCHANGED <<workerVars, textVars, lock, cap_seen, storeVars, envVars,
                   breakerVars>>

\* A task calls acquire_stream_slot(u) or release_stream_slot(u).
CallAcquire(t) ==
    /\ pc[t] = "idle"
    /\ EventLoopFree(t)
    /\ \E u \in Users : Call(t, [LocInit EXCEPT !.user = u], "acq_lock", "idle")
    /\ UNCHANGED <<workerVars, textVars, ledgerVars, storeVars, envVars,
                   breakerVars>>

CallRelease(t) ==
    /\ pc[t] = "idle"
    /\ EventLoopFree(t)
    /\ \E u \in Users : Call(t, [LocInit EXCEPT !.user = u], "rel_lock", "idle")
    /\ UNCHANGED <<workerVars, textVars, ledgerVars, storeVars, envVars,
                   breakerVars>>

\* Task t's request has acquired a slot and not released it.
Holds(t) == loc[t].slot_acquired /\ loc[t].releases = 0

\* A streaming request begins: acquire_stream_slot(u) is called.
NewStream(t) ==
    /\ ~Holds(t)
    /\ CallAcquire(t)

\* A streaming request that holds a slot ends: release_stream_slot is called
\* for its user.
EndStream(t) ==
    /\ pc[t] = "idle"
    /\ EventLoopFree(t)
    /\ Holds(t)
    /\ Call(t, loc[t], "rel_lock", "idle")
    /\ UNCHANGED <<workerVars, textVars, ledgerVars, storeVars, envVars,
                   breakerVars>>

\* cleanup_user(u): under the lock the user's entry is deleted, so that the
\* next read of the ledger finds 0.
cleanup_user(u) ==
    /\ lock = NoTask
    /\ active_streams' = [active_streams EXCEPT ![u] = 0]
    /\ UNCHANGED <<workerVars, textVars, taskVars, lock, cap_seen, storeVars,
                   envVars, queue, breakerVars>>

\* ------------------------------------------------------------------------
\* Actions of cfx/rate_limit.py
\* ------------------------------------------------------------------------

\* check_rate_limit up to the RPC call: the limit lookup, date.today(), the
\* reset timestamp; without credentials get_supabase_client raises ValueError
\* and check_and_increment fails open.
ResolveLimit(t) ==
    /\ pc[t] = "q_limit"
    /\ \E out \in StoreOutcomes :
         LET u == loc[t].user
             limit == get_daily_limit(u, out = "ok" /\ configured)
             today_utc == date_today
             l == [loc[t] EXCEPT !.limit = limit,
                                 !.day_utc = today_utc,
                                 !.reset_timestamp = ResetTimestamp(today_utc)]
         IN IF configured
            THEN Goto(t, l, "q_rpc")
            ELSE Return(t, FailOpenResult(l))
    /\ UNCHANGED <<workerVars, textVars, ledgerVars, storeVars, envVars,
                   breakerVars>>

\* supabase.rpc("increment_usage_counter"): the stored procedure adds one to
\* the row (creating it) and returns the new count and allowed; a raising RPC
\* is swallowed and the insert follows.
RpcIncrement(t) ==
    /\ pc[t] = "q_rpc"
    /\ \E out \in StoreOutcomes :
         LET u == loc[t].user
             post == RowCount(u) + 1
         IN IF out = "ok"
            THEN /\ usage_counters' = [usage_counters EXCEPT ![u] = post]
                 /\ completed' = [completed EXCEPT ![u] = @ + 1]
                 /\ Return(t, NormalResult([loc[t] EXCEPT !.pre_count = RowCount(u),
                                                          !.post_stored = post],
                                           post, post <= loc[t].limit))
            ELSE /\ Goto(t, [loc[t] EXCEPT !.rpc_raised = TRUE], "q_insert")
                 /\ UNCHANGED storeVars
    /\ UNCHANGED <<workerVars, textVars, ledgerVars, envVars, breakerVars>>

\* The first insert of the fallback (request_count = 1).
InsertRow(t) ==
    /\ pc[t] = "q_insert"
    /\ \E out \in InsertOutcomes :
         LET u == loc[t].user IN
         CASE out = "ok" /\ usage_counters[u] = None ->
                /\ usage_counters' = [usage_counters EXCEPT ![u] = 1]
                /\ completed' = [completed EXCEPT ![u] = @ + 1]
                /\ Return(t, NormalResult([loc[t] EXCEPT !.post_stored = 1], 1,
                                          Allowed(1, loc[t].limit)))
           [] out = "no_data" /\ usage_counters[u] # None ->
                \* "Insert failed (likely conflict)": the select of the try block
                /\ Goto(t, loc[t], "q_select")
                /\ UNCHANGED storeVars
           [] OTHER -> \* raised: `except Exception as upsert_error`
                /\ Goto(t, [loc[t] EXCEPT !.in_except = TRUE,
                                          !.store_raised =
                                              IF out = "ok" THEN @ ELSE "absorbed"],
                        "q_select")
                /\ UNCHANGED storeVars
    /\ UNCHANGED <<workerVars, textVars, ledgerVars, envVars, breakerVars>>

\* select request_count: in the try block (after an insert that returned no
\* data) and again in the handler of upsert_error.
SelectRow(t) ==
    /\ pc[t] = "q_select"
    /\ \E out \in StoreOutcomes :
         LET u == loc[t].user IN
         CASE out = "unavailable" /\ ~loc[t].in_except ->
                /\ Goto(t, [loc[t] EXCEPT !.in_except = TRUE,
                                          !.store_raised = "absorbed"], "q_select")
                /\ UNCHANGED storeVars
           [] out = "unavailable" /\ loc[t].in_except ->
                /\ Return(t, FailOpenResult([loc[t] EXCEPT !.store_raised = "escaped"]))
                /\ UNCHANGED storeVars
           [] out = "ok" /\ usage_counters[u] # None ->
                /\ Goto(t, [loc[t] EXCEPT !.current_count = usage_counters[u],
                                          !.pre_count = usage_counters[u]],
                        "q_update")
                /\ UNCHANGED storeVars
           [] out = "ok" /\ usage_counters[u] = None /\ loc[t].in_except ->
                /\ Goto(t, loc[t], "q_insert2")
                /\ UNCHANGED storeVars
           [] OTHER -> \* "Still no record - use 1 as fallback"
                /\ completed' = [completed EXCEPT ![u] = @ + 1]
                /\ Return(t, NormalResult(loc[t], 1, Allowed(1, loc[t].limit)))
                /\ UNCHANGED usage_counters
    /\ UNCHANGED <<workerVars, textVars, ledgerVars, envVars, breakerVars>>

\* update request_count = new_count where user_id and day match.
UpdateRow(t) ==
    /\ pc[t] = "q_update"
    /\ \E out \in StoreOutcomes :
         LET u == loc[t].user
             new_count == NewCount(loc[t].current_count)
         IN
         CASE out = "ok" ->
                /\ usage_counters' = [usage_counters EXCEPT ![u] = new_count]
                /\ completed' = [completed EXCEPT ![u] = @ + 1]
                /\ Return(t, NormalResult([loc[t] EXCEPT !.post_stored = new_count],
                                          new_count,
                                          Allowed(new_count, loc[t].limit)))
           [] out = "unavailable" /\ ~loc[t].in_except ->
                /\ Goto(t, [loc[t] EXCEPT !.in_except = TRUE,
                                          !.store_raised = "absorbed"], "q_select")
                /\ UNCHANGED storeVars
           [] OTHER ->
                /\ Return(t, FailOpenResult([loc[t] EXCEPT !.store_raised = "escaped"]))
                /\ UNCHANGED storeVars
    /\ UNCHANGED <<workerVars, textVars, ledgerVars, envVars, breakerVars>>

\* The insert of the handler ("No record found - create with count = 1").
InsertRowAgain(t) ==
    /\ pc[t] = "q_insert2"
    /\ \E out \in StoreOutcomes :
         LET u == loc[t].user IN
         IF out = "ok" /\ usage_counters[u] = None
         THEN /\ usage_counters' = [usage_counters EXCEPT ![u] = 1]
              /\ completed' = [completed EXCEPT ![u] = @ + 1]
              /\ Return(t, NormalResult([loc[t] EXCEPT !.post_stored = 1], 1,
                                        Allowed(1, loc[t].limit)))
         ELSE \* raised (unavailable, or the row exists by now)
              /\ Return(t, FailOpenResult([loc[t] EXCEPT !.store_raised = "escaped"]))
              /\ UNCHANGED storeVars
    /\ UNCHANGED <<workerVars, textVars, ledgerVars, envVars, breakerVars>>

\* Another router process on the same store completes a check of user u
\* through the stored procedure, between two store calls of this process.
OtherRouter(u) ==
    /\ configured
    /\ calls < MaxChecks
    /\ calls' = calls + 1
    /\ usage_counters' = [usage_counters EXCEPT ![u] = RowCount(u) + 1]
    /\ completed' = [completed EXCEPT ![u] = @ + 1]
    /\ UNCHANGED <<workerVars, textVars, taskVars, queue, ledgerVars,
                   configured,
                   day_offset,
                   breakerVars>>

\* Midnight of the process's time zone falls inside the UTC day: date.today()
\* moves on to the next date, for which the store holds no row yet.  (The
\* checks are synchronous, so midnight falls between two of them.)
LocalMidnight ==
    /\ day_offset = 0
    /\ \A t \in Tasks : pc[t] \notin QuotaPcs
    /\ day_offset' = day_offset + 1
    /\ usage_counters' = [u \in Users |-> None]
    /\ UNCHANGED <<workerVars, textVars, taskVars, queue, ledgerVars,
                   completed, configured, calls, breakerVars>>

\* A task calls check_rate_limit(u).
CallCheckRateLimit(t) ==
    /\ pc[t] = "idle"
    /\ EventLoopFree(t)
    /\ calls < MaxChecks
    /\ calls' = calls + 1
    /\ \E u \in Users : Call(t, [LocInit EXCEPT !.user = u], "q_limit", "idle")
    /\ UNCHANGED <<workerVars, textVars, ledgerVars, storeVars, configured,
                   day_offset,
                   breakerVars>>

\* ------------------------------------------------------------------------
\* Actions of cfx/litellm_client.py
\* ------------------------------------------------------------------------

\* chat_completions up to its first await: the breaker is asked, the request
\* is sent.
UpCall(t) ==
    /\ pc[t] = "up_call"
    /\ EventLoopFree(t)
    /\ LET r == can_proceed(circuit_breaker, now) IN
         /\ circuit_breaker' = r.cb
         /\ last_op' = IsOpenOp(~r.value)
         /\ IF r.value
            THEN Goto(t, [loc[t] EXCEPT !.attempt = 0], "up_wait")
            ELSE Return(t, [loc[t] EXCEPT !.up_result = "CircuitBreakerOpenError"])
    /\ UNCHANGED <<workerVars, textVars, now, consec, ledgerVars, storeVars,
                   envVars>>

\* chat_completions from the end of an attempt: success is recorded and the
\* result returned; a transient status or a timeout is retried once after
\* asyncio.sleep(0.5); otherwise the failure is recorded and raised.  An
\* exception of another class leaves the method unrecorded.
UpResponse(t) ==
    /\ pc[t] = "up_wait"
    /\ EventLoopFree(t)
    /\ \E out \in UpstreamOutcomes :
         LET retryable == \/ out.kind = "timeout"
                          \/ out.kind = "response" /\ Transient(out.status)
         IN
         CASE out.kind = "response" /\ out.status < 400 ->
                /\ circuit_breaker' = record_success(circuit_breaker)
                /\ consec' = 0
                /\ last_op' = "record_success"
                /\ Return(t, [loc[t] EXCEPT !.up_result = "ok",
                                            !.up_status = out.status])
           [] out.kind = "transport_error" ->
                /\ Return(t, [loc[t] EXCEPT !.up_result = "Exception"])
                /\ UNCHANGED <<circuit_breaker, consec, last_op>>
           [] retryable /\ MayRetry(loc[t].attempt) ->
                /\ Goto(t, [loc[t] EXCEPT !.attempt = @ + 1,
                                          !.last_error = out], "up_wait")
                /\ UNCHANGED <<circuit_breaker, consec, last_op>>
           [] OTHER ->
                /\ circuit_breaker' = record_failure(circuit_breaker, now)
                /\ consec' = consec + 1
                /\ last_op' = "record_failure"
                /\ Return(t, [loc[t] EXCEPT !.last_error = out,
                                            !.up_result =
                                                IF out.kind = "timeout"
                                                THEN "TimeoutException"
                                                ELSE "HTTPStatusError",
                                            !.up_status = out.status])
    /\ UNCHANGED <<workerVars, textVars, now, ledgerVars, storeVars, envVars>>

\* A caller awaits chat_completions of the client.
CallChatCompletions(t) ==
    /\ pc[t] = "idle"
    /\ EventLoopFree(t)
    /\ calls < MaxClientCalls
    /\ calls' = calls + 1
    /\ Call(t, LocInit, "up_call", "idle")
    /\ UNCHANGED <<workerVars, textVars, ledgerVars, storeVars, configured,
                   day_offset,
                   breakerVars>>

\* Requests keep arriving: a caller awaits chat_completions, uncounted.
ArriveAtClient(t) ==
    /\ pc[t] = "idle"
    /\ EventLoopFree(t)
    /\ Call(t, LocInit, "up_call", "idle")
    /\ UNCHANGED <<workerVars, textVars, ledgerVars, storeVars, envVars,
                   breakerVars>>

\* An attempt ends while the upstream is down (any outcome), and after it
\* has recovered (every answer is a success).
UpResponseDown(t) ==
    /\ now < RecoveredAt
    /\ UpResponse(t)

UpResponseUp(t) ==
    /\ now >= RecoveredAt
    /\ UpResponse(t)
    /\ loc'[t].up_result = "ok"

\* The breaker's methods called directly.
CallRecordSuccess ==
    /\ circuit_breaker' = record_success(circuit_breaker)
    /\ consec' = 0
    /\ last_op' = "record_success"
    /\ UNCHANGED <<workerVars, textVars, now, taskVars, queue, ledgerVars,
                   storeVars,
                   envVars>>

CallRecordFailure ==
    /\ circuit_breaker.failure_count < MaxFailureCount
    /\ circuit_breaker' = record_failure(circuit_breaker, now)
    /\ consec' = consec + 1
    /\ last_op' = "record_failure"
    /\ UNCHANGED <<workerVars, textVars, now, taskVars, queue, ledgerVars,
                   storeVars,
                   envVars>>

CallIsOpen ==
    /\ LET r == is_open(circuit_breaker, now) IN
         /\ circuit_breaker' = r.cb
         /\ last_op' = IsOpenOp(r.value)
    /\ UNCHANGED <<workerVars, textVars, now, consec, taskVars, queue,
                   ledgerVars,
                   storeVars, envVars>>

\* Time passes.
TickSteps == {1, recovery_timeout - 1}

Tick ==
    /\ \E d \in TickSteps :
         /\ now + d <= MaxTime
         /\ now' = now + d
    /\ last_op' = "none"
    /\ UNCHANGED <<workerVars, textVars, circuit_breaker, consec, taskVars,
                   queue,
                   ledgerVars,
                   storeVars, envVars>>

\* ------------------------------------------------------------------------
\* Actions of main.py
\* ------------------------------------------------------------------------

\* A request arrives and require_auth runs: a failed authentication is
\* answered 401, otherwise check_rate_limit calls the rate limit manager.
RequireAuth(t) ==
    /\ pc[t] \in {"idle", "done"}
    /\ EventLoopFree(t)
    /\ calls < MaxRequests
    /\ calls' = calls + 1
    /\ \E input \in AuthInputs :
         LET auth_result == validate_key_from_header(input)
             l == [LocInit EXCEPT !.authenticated = auth_result.authenticated,
                                  !.error = auth_result.error,
                                  !.invoked = <<"auth">>]
         IN
         IF ~AuthPasses(auth_result)
         THEN Goto(t, [l EXCEPT !.status = 401,
                                !.error_type = "authentication_error",
                                !.code = AuthErrorCode(auth_result)], "done")
         ELSE Call(t, [l EXCEPT !.user = auth_result.user_id,
                                !.invoked = <<"auth", "quota">>],
                   "q_limit", "check_rate_limit")
    /\ UNCHANGED <<workerVars, textVars, ledgerVars, storeVars, configured,
                   day_offset,
                   breakerVars>>

\* chat_completions up to its first await after the body was read: the body
\* is parsed and validated, the stage and its model resolved; a streaming
\* request then asks for a slot, any other calls the client.
ChatCompletions(t) ==
    /\ pc[t] = "handler"
    /\ EventLoopFree(t)
    /\ \E request_body \in Bodies, x_cfx_stage \in StageHeaders :
         LET stage == IF x_cfx_stage = "" THEN get_default_stage ELSE x_cfx_stage
             model_used == get_model_for_stage(stage)
             is_streaming == request_body.stream
             valid == /\ request_body.json /\ request_body.valid
                      /\ stage # "direct" /\ model_used # NoModel
             litellm_request ==
                 transform_request_to_litellm(request_body, model_used)
             l == [loc[t] EXCEPT
                      !.invoked = Append(@, "stage"),
                      !.valid = valid,
                      !.x_cfx_stage =
                          IF request_body.json /\ request_body.valid
                          THEN x_cfx_stage ELSE @]
             m == [l EXCEPT !.stage = stage, !.model_used = model_used,
                            !.stream = request_body.stream,
                            !.is_streaming = is_streaming,
                            !.payload_model = litellm_request.model]
         IN
         CASE ~valid ->
                Goto(t, [l EXCEPT !.status = 400,
                                  !.error_type = "invalid_request_error"], "done")
           [] valid /\ NeedsSlot(is_streaming) ->
                Call(t, [m EXCEPT !.invoked = Append(@, "slot")],
                     "acq_lock", "acquire")
           [] OTHER ->
                Call(t, [m EXCEPT !.invoked = Append(@, "upstream")],
                     "up_call", "client")
    /\ UNCHANGED <<workerVars, textVars, ledgerVars, storeVars, envVars,
                   breakerVars>>

\* The framework iterates stream_response(): parse_sse_stream reads
\* response.aiter_lines() of the client's generator, which raises on the
\* closed response; `finally` calls release_stream_slot and the exception
\* leaves the generator.
StreamStart(t) ==
    /\ pc[t] = "gen_created"
    /\ EventLoopFree(t)
    /\ ~ResponseOpenAfterReturn
    /\ Call(t, [loc[t] EXCEPT !.stream_end = "raised"], "rel_lock", "finally")
    /\ UNCHANGED <<workerVars, textVars, ledgerVars, storeVars, envVars,
                   breakerVars>>

\* The client is gone when the StreamingResponse starts: sending the
\* response start fails or is cancelled and stream_response() is discarded
\* without having been iterated, so no statement of it (its `finally`
\* included) runs.
ClientGoneBeforeStream(t) ==
    /\ pc[t] = "gen_created"
    /\ EventLoopFree(t)
    /\ Goto(t, loc[t], "done")
    /\ UNCHANGED <<workerVars, textVars, ledgerVars, storeVars, envVars,
                   breakerVars>>

\* ------------------------------------------------------------------------
\* cfx/background.py: BackgroundTaskQueue, as main.py starts and stops it
\* ------------------------------------------------------------------------

\* startup of main.py: background_queue.start().
Startup ==
    /\ lifespan = "created"
    /\ lifespan' = "up"
    /\ IF running
       THEN UNCHANGED <<running, worker_task>>
       ELSE running' = TRUE /\ worker_task' = "loop"
    /\ UNCHANGED <<old_workers, maxlen, offered, returned, started, outcomes, queue,
                   taskVars, ledgerVars, storeVars, envVars, breakerVars,
                   textVars>>

\* enqueue, called by log_request of a request in flight: no await before it
\* returns.
Enqueue ==
    /\ lifespan \in {"up", "stopping"}
    /\ offered < MaxEnqueues
    /\ LET r == enqueue(queue, offered + 1) IN
         /\ queue' = r.queue
         /\ returned' = r.returned
    /\ offered' = offered + 1
    /\ UNCHANGED <<old_workers, maxlen, running, worker_task, lifespan, started, outcomes,
                   taskVars, ledgerVars, storeVars, envVars, breakerVars,
                   textVars>>

\* _worker from the head of its loop to its next await: the loop ends when
\* running is false, else the first task is taken and awaited, or the
\* worker sleeps when there is none.
WorkerLoop ==
    /\ worker_task = "loop"
    /\ IF ~WorkerGoesOn(running)
       THEN /\ worker_task' = "ended"
            /\ UNCHANGED <<queue, started>>
       ELSE IF queue # << >>
       THEN /\ worker_task' = "task"
            /\ started' = Append(started, Head(queue))
            /\ queue' = Tail(queue)
       ELSE /\ worker_task' = "sleep"
            /\ UNCHANGED <<queue, started>>
    /\ UNCHANGED <<old_workers, maxlen, running, lifespan, offered, returned, outcomes,
                   taskVars, ledgerVars, storeVars, envVars, breakerVars,
                   textVars>>

\* The awaited task returns or raises.
WorkerTaskDone ==
    /\ worker_task = "task"
    /\ \E outcome \in TaskOutcomes :
         /\ outcomes' = Append(outcomes, outcome)
         /\ worker_task' = AfterTask(outcome)
    /\ UNCHANGED <<old_workers, maxlen, running, lifespan, offered, returned, started, queue,
                   taskVars, ledgerVars, storeVars, envVars, breakerVars,
                   textVars>>

\* asyncio.sleep(0.1) of the idle worker is over.
WorkerWake ==
    /\ worker_task = "sleep"
    /\ worker_task' = "loop"
    /\ UNCHANGED <<old_workers, maxlen, running, lifespan, offered, returned, started,
                   outcomes, queue,
                   taskVars, ledgerVars, storeVars, envVars, breakerVars,
                   textVars>>

\* A worker task is in its loop: it has not ended.
Alive(w) == w \in {"loop", "task", "sleep"}

\* start(): nothing when running, else running is set and a new _worker task
\* is created and bound to worker_task; the task that was bound before is
\* not awaited or cancelled and goes on by itself.
start ==
    /\ ~running
    /\ Alive(worker_task) => Len(old_workers) < MaxRestarts
    /\ running' = TRUE
    /\ worker_task' = "loop"
    /\ old_workers' = IF Alive(worker_task)
                      THEN Append(old_workers, worker_task)
                      ELSE old_workers
    /\ UNCHANGED <<maxlen, lifespan, offered, returned, started, outcomes, queue,
                   taskVars, ledgerVars, storeVars, envVars, breakerVars,
                   textVars>>

\* stop(): running is cleared; the call then waits for worker_task as it is
\* bound at that moment.
stop ==
    /\ running
    /\ running' = FALSE
    /\ UNCHANGED <<old_workers, maxlen, worker_task, lifespan, offered, returned,
                   started, outcomes, queue,
                   taskVars, ledgerVars, storeVars, envVars, breakerVars,
                   textVars>>

\* _worker of a replaced task, from the head of its loop to its next await.
OldWorkerLoop(i) ==
    /\ i <= Len(old_workers)
    /\ old_workers[i] = "loop"
    /\ IF ~WorkerGoesOn(running)
       THEN /\ old_workers' = [old_workers EXCEPT ![i] = "ended"]
            /\ UNCHANGED <<queue, started>>
       ELSE IF queue # << >>
       THEN /\ old_workers' = [old_workers EXCEPT ![i] = "task"]
            /\ started' = Append(started, Head(queue))
            /\ queue' = Tail(queue)
       ELSE /\ old_workers' = [old_workers EXCEPT ![i] = "sleep"]
            /\ UNCHANGED <<queue, started>>
    /\ UNCHANGED <<maxlen, running, worker_task, lifespan, offered, returned,
                   outcomes,
                   taskVars, ledgerVars, storeVars, envVars, breakerVars,
                   textVars>>

\* The task a replaced worker awaits returns or raises.
OldWorkerTaskDone(i) ==
    /\ i <= Len(old_workers)
    /\ old_workers[i] = "task"
    /\ \E outcome \in TaskOutcomes :
         /\ outcomes' = Append(outcomes, outcome)
         /\ old_workers' = [old_workers EXCEPT ![i] = AfterTask(outcome)]
    /\ UNCHANGED <<maxlen, running, worker_task, lifespan, offered, returned,
                   started, queue,
                   taskVars, ledgerVars, storeVars, envVars, breakerVars,
                   textVars>>

\* asyncio.sleep(0.1) of a replaced worker is over.
OldWorkerWake(i) ==
    /\ i <= Len(old_workers)
    /\ old_workers[i] = "sleep"
    /\ old_workers' = [old_workers EXCEPT ![i] = "loop"]
    /\ UNCHANGED <<maxlen, running, worker_task, lifespan, offered, returned,
                   started, outcomes, queue,
                   taskVars, ledgerVars, storeVars, envVars, breakerVars,
                   textVars>>

\* shutdown of main.py: background_queue.stop() up to `await self.worker_task`.
Shutdown ==
    /\ lifespan = "up"
    /\ running' = FALSE
    /\ lifespan' = IF worker_task = "none" THEN "stopped" ELSE "stopping"
    /\ UNCHANGED <<old_workers, maxlen, worker_task, offered, returned, started, outcomes,
                   queue,
                   taskVars, ledgerVars, storeVars, envVars, breakerVars,
                   textVars>>

\* stop() returns: the worker task it awaits is over.
ShutdownReturn ==
    /\ lifespan = "stopping"
    /\ worker_task = "ended"
    /\ lifespan' = "stopped"
    /\ UNCHANGED <<old_workers, maxlen, running, worker_task, offered, returned, started,
                   outcomes, queue,
                   taskVars, ledgerVars, storeVars, envVars, breakerVars,
                   textVars>>

\* ------------------------------------------------------------------------
\* cfx/security.py and cfx/openai_compat.py: calls of the text functions
\* ------------------------------------------------------------------------

\* validate_key_from_header calls extract_bearer_token on the header.
ExtractBearer ==
    /\ api_key = Pending
    /\ api_key' = extract_bearer_token(authorization_header)
    /\ UNCHANGED <<authorization_header, key_hash, data, wire, events, queue,
                   taskVars, ledgerVars, storeVars, envVars, breakerVars,
                   workerVars>>

\* validate_key_from_header hands the token to authenticate, which computes
\* the digest it looks up; without a token authenticate is not called, and
\* it returns before hashing when it is left with no key.
Authenticate ==
    /\ api_key # Pending
    /\ key_hash = Pending
    /\ key_hash' = IF api_key = Absent THEN Absent ELSE authenticate(api_key)
    /\ UNCHANGED <<authorization_header, api_key, data, wire, events, queue,
                   taskVars, ledgerVars, storeVars, envVars, breakerVars,
                   workerVars>>

\* ------------------------------------------------------------------------
\* main.py: the generator stream_response
\* ------------------------------------------------------------------------

\* stream_response from one suspension to the next: parse_sse_stream reads
\* the next line of the stream; a line without an event is skipped, for the
\* done event the done frame is yielded, for any other event its frame.
StreamLine(t) ==
    /\ pc[t] = "gen_running"
    /\ loc[t].lines # << >>
    /\ LET event == ParseLine(Head(loc[t].lines))
           l == [loc[t] EXCEPT !.lines = Tail(@)]
       IN IF event = << >>
          THEN Goto(t, l, "gen_running")
          ELSE Goto(t, [l EXCEPT !.sent = @ \o Relayed(event[1])],
                    IF IsDone(event[1]) THEN "gen_logging" ELSE "gen_running")
    /\ UNCHANGED <<workerVars, textVars, ledgerVars, storeVars, envVars,
                   breakerVars>>

\* log_request awaits enqueue and drops the value it returns; stream_response
\* goes on with its loop.
MutAfterLog(enqueued) == IF enqueued THEN "gen_running" ELSE "done"

AfterLog(enqueued) == "gen_running"

\* stream_response resumed after the done frame: the success record is
\* handed to log_request, and the loop goes on.
StreamLogged(t) ==
    /\ pc[t] = "gen_logging"
    /\ loc' = [loc EXCEPT ![t].logged = @ + 1]
    /\ LET r == enqueue(queue, [user_id |-> loc[t].user, status |-> "success"])
       IN /\ queue' = r.queue
          /\ pc' = [pc EXCEPT ![t] = AfterLog(r.returned)]
    /\ UNCHANGED <<ret, workerVars, textVars, ledgerVars, storeVars, envVars,
                   breakerVars>>

\* The stream is exhausted: the loop ends and `finally` releases the slot.
StreamExhausted(t) ==
    /\ pc[t] = "gen_running"
    /\ loc[t].lines = << >>
    /\ Call(t, [loc[t] EXCEPT !.stream_end = "exhausted"], "rel_lock", "finally")
    /\ UNCHANGED <<workerVars, textVars, ledgerVars, storeVars, envVars,
                   breakerVars>>

\* Reading the stream raises: the exception passes `except GeneratorExit`
\* and `finally` releases the slot.
StreamRaises(t) ==
    /\ pc[t] = "gen_running"
    /\ loc[t].lines # << >>
    /\ Call(t, [loc[t] EXCEPT !.stream_end = "raised"], "rel_lock", "finally")
    /\ UNCHANGED <<workerVars, textVars, ledgerVars, storeVars, envVars,
                   breakerVars>>

\* The client disconnects: the suspended generator is closed, `except
\* GeneratorExit` raises again and `finally` releases the slot.
ClientGone(t) ==
    /\ pc[t] \in {"gen_running", "gen_logging"}
    /\ Call(t, [loc[t] EXCEPT !.stream_end = "disconnected"], "rel_lock", "finally")
    /\ UNCHANGED <<workerVars, textVars, ledgerVars, storeVars, envVars,
                   breakerVars>>

\* The objects of data are framed one after the other, then the done frame.
FormatEvents ==
    /\ data # << >> /\ wire = << >>
    /\ wire' = format_sse_event(data[1]) \o format_sse_event(data[2])
                  \o format_sse_done
    /\ UNCHANGED <<authorization_header, api_key, key_hash, data, events, queue, taskVars,
                   ledgerVars, storeVars, envVars, breakerVars, workerVars>>

\* parse_sse_stream is run over the lines of the text.
ParseWire ==
    /\ wire # << >> /\ events = Unparsed
    /\ events' = parse_sse_stream(Lines(wire))
    /\ UNCHANGED <<authorization_header, api_key, key_hash, data, wire, queue, taskVars,
                   ledgerVars, storeVars, envVars, breakerVars, workerVars>>

\* ------------------------------------------------------------------------
\* Specifications
\* ------------------------------------------------------------------------

DayOffsets == {-1, 0, 1}

\* No header is being read and nothing is on the wire.
NoText ==
    /\ authorization_header = Absent
    /\ api_key = Pending
    /\ key_hash = Pending
    /\ data = << >>
    /\ wire = << >>
    /\ events = << >>

\* The queue of get_background_queue() once the startup handler has run.
Serving ==
    /\ maxlen = max_queue_size
    /\ running = TRUE
    /\ worker_task = "sleep"
    /\ lifespan = "up"
    /\ offered = 0
    /\ returned = "none"
    /\ started = << >>
    /\ outcomes = << >>
    /\ old_workers = << >>

Init ==
    /\ pc = [t \in Tasks |-> "idle"]
    /\ ret = [t \in Tasks |-> "idle"]
    /\ loc = [t \in Tasks |-> LocInit]
    /\ active_streams = [u \in Users |-> 0]
    /\ lock = NoTask
    /\ cap_seen = [u \in Users |-> {}]
    /\ usage_counters = [u \in Users |-> None]
    /\ completed = [u \in Users |-> 0]
    /\ configured \in {TRUE, FALSE}
    /\ day_offset \in DayOffsets
    /\ calls = 0
    /\ queue = << >>
    /\ Serving
    /\ NoText
    /\ circuit_breaker = BreakerInit
    /\ now = 0
    /\ consec = 0
    /\ last_op = "none"

Next ==
    \E t \in Tasks :
        \/ RequireAuth(t)
        \/ ResolveLimit(t)
        \/ RpcIncrement(t)
        \/ InsertRow(t)
        \/ SelectRow(t)
        \/ UpdateRow(t)
        \/ InsertRowAgain(t)
        \/ ChatCompletions(t)
        \/ AcquireEnter(t)
        \/ AcquireDecide(t)
        \/ UpCall(t)
        \/ UpResponse(t)
        \/ StreamStart(t)
        \/ ClientGoneBeforeStream(t)
        \/ ReleaseSlot(t)

Spec == Init /\ [][Next]_vars

NextLedger ==
    \E t \in Tasks :
        \/ CallAcquire(t)
        \/ CallRelease(t)
        \/ AcquireEnter(t)
        \/ AcquireDecide(t)
        \/ ReleaseSlot(t)

SpecLedger == Init /\ [][NextLedger]_vars

\* Streaming requests that acquire a slot and release it once, with
\* cleanup_user called at any time.
NextCleanup ==
    \/ \E t \in Tasks :
          \/ NewStream(t)
          \/ AcquireEnter(t)
          \/ AcquireDecide(t)
          \/ EndStream(t)
          \/ ReleaseSlot(t)
    \/ \E u \in Users : cleanup_user(u)

SpecCleanup == Init /\ [][NextCleanup]_vars

NextQuota ==
    \/ \E t \in Tasks :
          \/ CallCheckRateLimit(t)
          \/ ResolveLimit(t)
          \/ RpcIncrement(t)
          \/ InsertRow(t)
          \/ SelectRow(t)
          \/ UpdateRow(t)
          \/ InsertRowAgain(t)
    \/ \E u \in Users : OtherRouter(u)

SpecQuota == Init /\ [][NextQuota]_vars

\* The quota check in a process whose local midnight falls inside the UTC
\* day (a zone east of UTC: the local date is the UTC date until then).
InitDays == Init /\ configured /\ day_offset = 0

NextDays == NextQuota \/ LocalMidnight

SpecDays == InitDays /\ [][NextDays]_vars

NextBreaker ==
    \/ CallRecordSuccess
    \/ CallRecordFailure
    \/ CallIsOpen
    \/ Tick

\* The breaker reads neither the store's configuration nor the date.
InitBreaker == Init /\ configured /\ day_offset = 0

SpecBreaker == InitBreaker /\ [][NextBreaker]_vars

NextClient ==
    \E t \in Tasks :
        \/ CallChatCompletions(t)
        \/ UpCall(t)
        \/ UpResponse(t)

SpecClient == InitBreaker /\ [][NextClient]_vars

\* The pipeline after five upstream failures in a row, while the clock stays
\* within the recovery timeout: no call of the client gets to send.
InitOutage ==
    /\ pc = [t \in Tasks |-> "idle"]
    /\ ret = [t \in Tasks |-> "idle"]
    /\ loc = [t \in Tasks |-> LocInit]
    /\ active_streams = [u \in Users |-> 0]
    /\ lock = NoTask
    /\ cap_seen = [u \in Users |-> {}]
    /\ usage_counters = [u \in Users |-> None]
    /\ completed = [u \in Users |-> 0]
    /\ configured \in {TRUE, FALSE}
    /\ day_offset \in DayOffsets
    /\ calls = 0
    /\ queue = << >>
    /\ Serving
    /\ NoText
    /\ circuit_breaker = FailedTimes(failure_threshold, 0)
    /\ now = 0
    /\ consec = failure_threshold
    /\ last_op = "record_failure"

NextOutage ==
    \E t \in Tasks :
        \/ RequireAuth(t)
        \/ ResolveLimit(t)
        \/ RpcIncrement(t)
        \/ InsertRow(t)
        \/ SelectRow(t)
        \/ UpdateRow(t)
        \/ InsertRowAgain(t)
        \/ ChatCompletions(t)
        \/ AcquireEnter(t)
        \/ AcquireDecide(t)
        \/ UpCall(t)
        \/ ReleaseSlot(t)

SpecOutage == InitOutage /\ [][NextOutage]_vars

NextRecovery ==
    \/ Tick
    \/ \E t \in Tasks :
          \/ ArriveAtClient(t)
          \/ UpCall(t)
          \/ UpResponseDown(t)
          \/ UpResponseUp(t)

\* The clock advances, requests keep arriving, and the event loop runs
\* every call that is ready.
FairRecovery ==
    /\ WF_vars(Tick)
    /\ \A t \in Tasks :
          /\ WF_vars(ArriveAtClient(t))
          /\ WF_vars(UpCall(t))
          /\ WF_vars(UpResponseUp(t))

SpecRecovery == InitBreaker /\ [][NextRecovery]_vars /\ FairRecovery

\* The queue as constructed, before the startup handler runs.
InitQueue ==
    /\ pc = [t \in Tasks |-> "idle"]
    /\ ret = [t \in Tasks |-> "idle"]
    /\ loc = [t \in Tasks |-> LocInit]
    /\ active_streams = [u \in Users |-> 0]
    /\ lock = NoTask
    /\ cap_seen = [u \in Users |-> {}]
    /\ usage_counters = [u \in Users |-> None]
    /\ completed = [u \in Users |-> 0]
    /\ configured = TRUE
    /\ day_offset = 0
    /\ calls = 0
    /\ circuit_breaker = BreakerInit
    /\ now = 0
    /\ consec = 0
    /\ last_op = "none"
    /\ queue = << >>
    /\ maxlen = QueueCap
    /\ running = FALSE
    /\ worker_task = "none"
    /\ lifespan = "created"
    /\ offered = 0
    /\ returned = "none"
    /\ started = << >>
    /\ outcomes = << >>
    /\ old_workers = << >>
    /\ NoText

NextQueue ==
    \/ Startup
    \/ Enqueue
    \/ WorkerLoop
    \/ WorkerTaskDone
    \/ WorkerWake
    \/ Shutdown
    \/ ShutdownReturn

\* The event loop runs the worker whenever it is ready, and an awaited task
\* ends.
FairQueue ==
    /\ WF_vars(WorkerLoop)
    /\ WF_vars(WorkerTaskDone)
    /\ WF_vars(WorkerWake)
    /\ WF_vars(ShutdownReturn)

\* The queue of a serving process with start() and stop() called at any time.
InitRestart == Init /\ configured /\ day_offset = 0

NextRestart ==
    \/ start
    \/ stop
    \/ Enqueue
    \/ WorkerLoop
    \/ WorkerTaskDone
    \/ WorkerWake
    \/ \E i \in 1..MaxRestarts :
          \/ OldWorkerLoop(i)
          \/ OldWorkerTaskDone(i)
          \/ OldWorkerWake(i)

SpecRestart == InitRestart /\ [][NextRestart]_vars

SpecQueue == InitQueue /\ [][NextQueue]_vars /\ FairQueue

\* The process with no request in flight.
Quiet ==
    /\ pc = [t \in Tasks |-> "idle"]
    /\ ret = [t \in Tasks |-> "idle"]
    /\ loc = [t \in Tasks |-> LocInit]
    /\ active_streams = [u \in Users |-> 0]
    /\ lock = NoTask
    /\ cap_seen = [u \in Users |-> {}]
    /\ usage_counters = [u \in Users |-> None]
    /\ completed = [u \in Users |-> 0]
    /\ configured = TRUE
    /\ day_offset = 0
    /\ calls = 0
    /\ queue = << >>
    /\ circuit_breaker = BreakerInit
    /\ now = 0
    /\ consec = 0
    /\ last_op = "none"
    /\ Serving

\* A request arrives with any of the headers.
InitBearer ==
    /\ Quiet
    /\ authorization_header \in Headers
    /\ api_key = Pending
    /\ key_hash = Pending
    /\ data = << >>
    /\ wire = << >>
    /\ events = << >>

NextBearer == ExtractBearer

\* The headers of InitBearer, and those whose token begins with the prefix
\* itself.
AuthHeaders == Headers \cup {BearerPrefix \o BearerPrefix \o t : t \in Tokens}

\* A header is about to be validated by validate_key_from_header.
InitAuthHash ==
    /\ Quiet
    /\ authorization_header \in AuthHeaders
    /\ api_key = Pending
    /\ key_hash = Pending
    /\ data = << >>
    /\ wire = << >>
    /\ events = << >>

NextAuthHash == ExtractBearer \/ Authenticate

SpecAuthHash == InitAuthHash /\ [][NextAuthHash]_vars

SpecBearer == InitBearer /\ [][NextBearer]_vars

\* stream_response of a streaming request of u1 is iterated over a stream
\* that delivers its lines; the request holds its slot.
InitRelay ==
    /\ pc = [t \in Tasks |-> IF t = 1 THEN "gen_running" ELSE "idle"]
    /\ ret = [t \in Tasks |-> "idle"]
    /\ \E stream \in StreamsUpTo(MaxLines) :
         loc = [t \in Tasks |->
                  IF t = 1
                  THEN [LocInit EXCEPT
                           !.user = "u1", !.authenticated = TRUE,
                           !.valid = TRUE, !.stream = TRUE, !.is_streaming = TRUE,
                           !.stage = get_default_stage,
                           !.model_used = get_model_for_stage(get_default_stage),
                           !.slot_acquired = TRUE, !.status = 200,
                           !.failure = "answered",
                           !.invoked = <<"auth", "quota", "stage", "slot", "upstream">>,
                           !.lines = stream, !.upstream = stream]
                  ELSE LocInit]
    /\ active_streams = [u \in Users |-> IF u = "u1" THEN 1 ELSE 0]
    /\ lock = NoTask
    /\ cap_seen = [u \in Users |-> {}]
    /\ usage_counters = [u \in Users |-> IF u = "u1" THEN 1 ELSE None]
    /\ completed = [u \in Users |-> IF u = "u1" THEN 1 ELSE 0]
    /\ configured = TRUE
    /\ day_offset = 0
    /\ calls = 1
    /\ queue = << >>
    /\ circuit_breaker = BreakerInit
    /\ now = 0
    /\ consec = 0
    /\ last_op = "record_success"
    /\ Serving
    /\ NoText

NextRelay ==
    \E t \in Tasks :
        \/ StreamLine(t)
        \/ StreamLogged(t)
        \/ StreamExhausted(t)
        \/ StreamRaises(t)
        \/ ClientGone(t)
        \/ ReleaseSlot(t)

SpecRelay == InitRelay /\ [][NextRelay]_vars

\* The records of other requests that wait in the queue.
Backlogs ==
    {<< >>, [i \in 1..QueueCap |-> [user_id |-> "u2", status |-> "success"]]}

\* stream_response of a streaming request of u1 is iterated while the worker
\* runs; the queue is empty or full of the records of other requests.
InitLogging ==
    /\ pc = [t \in Tasks |-> IF t = 1 THEN "gen_running" ELSE "idle"]
    /\ ret = [t \in Tasks |-> "idle"]
    /\ \E stream \in StreamsUpTo(MaxLines) :
         loc = [t \in Tasks |->
                  IF t = 1
                  THEN [LocInit EXCEPT
                           !.user = "u1", !.authenticated = TRUE,
                           !.valid = TRUE, !.stream = TRUE, !.is_streaming = TRUE,
                           !.stage = get_default_stage,
                           !.model_used = get_model_for_stage(get_default_stage),
                           !.slot_acquired = TRUE, !.status = 200,
                           !.failure = "answered",
                           !.invoked = <<"auth", "quota", "stage", "slot", "upstream">>,
                           !.lines = stream, !.upstream = stream]
                  ELSE LocInit]
    /\ active_streams = [u \in Users |-> IF u = "u1" THEN 1 ELSE 0]
    /\ lock = NoTask
    /\ cap_seen = [u \in Users |-> {}]
    /\ usage_counters = [u \in Users |-> IF u = "u1" THEN 1 ELSE None]
    /\ completed = [u \in Users |-> IF u = "u1" THEN 1 ELSE 0]
    /\ configured = TRUE
    /\ day_offset = 0
    /\ calls = 1
    /\ queue \in Backlogs
    /\ circuit_breaker = BreakerInit
    /\ now = 0
    /\ consec = 0
    /\ last_op = "record_success"
    /\ maxlen = QueueCap
    /\ running = TRUE
    /\ worker_task = "sleep"
    /\ lifespan = "up"
    /\ offered = 0
    /\ returned = "none"
    /\ started = << >>
    /\ outcomes = << >>
    /\ old_workers = << >>
    /\ NoText

NextLogging ==
    \/ \E t \in Tasks :
          \/ StreamLine(t)
          \/ StreamLogged(t)
          \/ StreamExhausted(t)
          \/ StreamRaises(t)
          \/ ClientGone(t)
          \/ ReleaseSlot(t)
    \/ WorkerLoop
    \/ WorkerTaskDone
    \/ WorkerWake

SpecLogging == InitLogging /\ [][NextLogging]_vars

\* Two objects are about to be framed.
InitSse ==
    /\ Quiet
    /\ authorization_header = Absent
    /\ api_key = Pending
    /\ key_hash = Pending
    /\ data \in {<<x, y>> : x \in JsonObjects, y \in JsonObjects}
    /\ wire = << >>
    /\ events = Unparsed

NextSse == FormatEvents \/ ParseWire

SpecSse == InitSse /\ [][NextSse]_vars

\* ------------------------------------------------------------------------
\* Claims
\* ------------------------------------------------------------------------

\* Positions inside acquire_stream_slot.
SlotPcs == {"acq_lock", "acq_cap"}

\* The gates in the order of the pipeline, with and without the slot.
GateOrders ==
    {<<"auth", "quota", "stage", "slot", "upstream">>,
     <<"auth", "quota", "stage", "upstream">>}

IsPrefix(s, w) == Len(s) <= Len(w) /\ \A i \in 1..Len(s) : s[i] = w[i]

\* C1: the gates a request has invoked are an initial part of auth, quota,
\* body/stage, slot (streaming only), upstream; a gate is invoked only after
\* the gates before it passed; and a request a gate refused has invoked no
\* later gate: a failed authentication is answered 401 with the counter not
\* charged, no slot and no upstream call; a quota refusal is answered 429
\* with no slot and no upstream call; an invalid body or stage is answered 400
\* with no slot and no upstream call; a refused slot is answered 429 with no
\* upstream call.
C1_GateOrder ==
    \A t \in Tasks :
        LET l == loc[t]
            inv == l.invoked
        IN /\ \E w \in GateOrders : IsPrefix(inv, w)
           /\ Len(inv) >= 2 => l.authenticated
           /\ Len(inv) >= 3 => l.allowed
           /\ Len(inv) >= 4 => l.valid
           /\ (Len(inv) = 5 \/ l.releases > 0) => l.slot_acquired
           /\ (Len(inv) >= 1 /\ ~l.authenticated) =>
                 /\ inv = <<"auth">> /\ pc[t] = "done" /\ l.status = 401
                 /\ l.post_stored = None /\ l.called = "none"
                 /\ ~l.slot_acquired
           /\ (Len(inv) >= 2 /\ pc[t] \notin QuotaPcs /\ ~l.allowed) =>
                 /\ inv = <<"auth", "quota">> /\ pc[t] = "done" /\ l.status = 429
                 /\ ~l.slot_acquired /\ l.releases = 0
           /\ (Len(inv) >= 3 /\ ~l.valid) =>
                 /\ inv = <<"auth", "quota", "stage">> /\ pc[t] = "done"
                 /\ l.status = 400 /\ ~l.slot_acquired
           /\ (Len(inv) >= 4 /\ inv[4] = "slot" /\ pc[t] \notin SlotPcs
                 /\ ~l.slot_acquired) =>
                 /\ Len(inv) = 4 /\ pc[t] = "done" /\ l.status = 429

\* Witness of C1: one request was refused by the quota gate with the store
\* answering, after another request of the same user had passed all five
\* gates.
C1_Witness ==
    \E t1, t2 \in Tasks :
        /\ pc[t1] = "done" /\ pc[t2] = "done"
        /\ loc[t1].invoked = <<"auth", "quota", "stage", "slot", "upstream">>
        /\ loc[t2].invoked = <<"auth", "quota">>
        /\ loc[t2].user = loc[t1].user
        /\ loc[t2].status = 429 /\ ~loc[t2].fail_open
        /\ loc[t2].post_stored = loc[t2].limit + 1

\* C2: a request that acquired a stream slot has released it exactly once
\* when it is over, on every exit path; no request releases twice, or
\* releases a slot it did not acquire.
C2_SlotReleasedOnce ==
    \A t \in Tasks :
        /\ loc[t].releases <= 1
        /\ loc[t].releases = 1 => loc[t].slot_acquired
        /\ (pc[t] = "done" /\ loc[t].slot_acquired) => loc[t].releases = 1

\* Witness of C2: a streaming request is over, holds a slot it never
\* released, and the ledger still counts it.
C2_Witness ==
    \E t \in Tasks :
        /\ pc[t] = "done" /\ loc[t].slot_acquired /\ loc[t].releases = 0
        /\ loc[t].status = 200
        /\ active_streams[loc[t].user] > 0

\* C3: for every user whose resolved cap has been the same at every acquire
\* (cap held fixed), 0 <= active_streams[user] <= cap in every reachable
\* state; an acquire that returned true saw a count below the cap and stored
\* that count plus one, an acquire that returned false saw a count at or
\* above the cap, and a release never stores a count below zero.
C3_LedgerWithinCap ==
    /\ \A u \in Users :
         /\ active_streams[u] >= 0
         /\ \A c \in cap_seen[u] : cap_seen[u] = {c} => active_streams[u] <= c
    /\ \A t \in Tasks :
         (loc[t].called = "acquire" /\ pc[t] = ret[t]) =>
              (loc[t].slot_acquired <=> loc[t].current_count < loc[t].cap)

\* Witness of C3: both tasks have finished an acquire for the same user, one
\* got the slot and the other was refused with the ledger at the cap.
C3_Witness ==
    \E t1, t2 \in Tasks :
        /\ t1 # t2
        /\ loc[t1].user = loc[t2].user
        /\ loc[t1].called = "acquire" /\ loc[t1].slot_acquired
        /\ loc[t2].called = "acquire" /\ ~loc[t2].slot_acquired
        /\ pc[t1] = "idle" /\ pc[t2] = "idle"
        /\ active_streams[loc[t1].user] = loc[t2].cap
        /\ cap_seen[loc[t1].user] = {loc[t2].cap}

\* C4: a step of a request whose body does not ask for streaming leaves the
\* ledger and its lock as they are; such a request never asks for a slot,
\* holds or releases none and is never refused for the cap; a request refused
\* for the cap is a streaming request that met a count at or above the cap.
C4_NonStreamingBypassesLedger ==
    [][\A t \in Tasks :
          /\ ((loc'[t] # loc[t] \/ pc'[t] # pc[t])
                /\ ~loc[t].stream /\ ~loc'[t].stream) =>
                (active_streams' = active_streams /\ lock' = lock)
          /\ (Len(loc'[t].invoked) >= 4 /\ ~loc'[t].stream) =>
                /\ loc'[t].invoked[4] = "upstream"
                /\ ~loc'[t].slot_acquired /\ loc'[t].releases = 0
          /\ (loc'[t].status = 429 /\ Len(loc'[t].invoked) = 4) =>
                /\ loc'[t].stream
                /\ loc'[t].current_count >= loc'[t].cap]_vars

\* Witness of C4: a non-streaming request of a user has reached the upstream
\* call while a streaming request of the same user holds a slot and the
\* user's count equals the user's cap.
C4_Witness ==
    \E t1, t2 \in Tasks :
        /\ pc[t1] = "gen_created" /\ loc[t1].slot_acquired
        /\ loc[t2].user = loc[t1].user
        /\ ~loc[t2].stream /\ pc[t2] = "up_wait"
        /\ loc[t2].invoked = <<"auth", "quota", "stage", "upstream">>
        /\ active_streams[loc[t1].user] = get_user_cap(loc[t1].user, TRUE)

\* A check_rate_limit call of task t has returned.
CheckReturned(t) == loc[t].called = "check" /\ pc[t] = ret[t]

\* Tasks inside check_rate_limit for user u.
Contenders(u) ==
    {t \in Tasks : loc[t].user = u /\ pc[t] \in QuotaPcs}

C6_NoLostIncrement ==
    \A u \in Users :
        /\ RowCount(u) >= completed[u]
        /\ RowCount(u) <= completed[u] + Cardinality(Contenders(u))

\* C7: within the (user, day) bucket request_count never decreases (the store
\* keeps one row per user and day).
C7_Monotone ==
    [][\A u \in Users :
          /\ (usage_counters[u] # None => usage_counters'[u] # None)
          /\ (IF usage_counters'[u] = None THEN 0 ELSE usage_counters'[u])
                >= RowCount(u)]_vars

\* C8 as stated: whenever a store call of the check raised, or the store is
\* not configured, the check returns allowed with remaining = limit - 1.
C8_FailOpenOnAnyRaise ==
    \A t \in Tasks :
        (CheckReturned(t) /\
            (~configured \/ loc[t].rpc_raised \/ loc[t].store_raised # "none")) =>
            (loc[t].allowed /\ loc[t].remaining = loc[t].limit - 1)

\* C8 amended: the check fails open exactly when the store is not configured
\* or a store call raised inside the handler of the failed insert; it then
\* returns allowed with remaining = limit - 1.  A raising RPC, first insert,
\* or select/update of the try block is absorbed by the fallback.
C8_FailOpen ==
    \A t \in Tasks :
        CheckReturned(t) =>
            /\ loc[t].fail_open <=> (~configured \/ loc[t].store_raised = "escaped")
            /\ loc[t].fail_open =>
                 (loc[t].allowed /\ loc[t].remaining = loc[t].limit - 1)

\* Witness of C8: a configured store, a call raised in the handler, and the
\* check returned the fail-open result.
C8_Witness ==
    \E t \in Tasks :
        /\ CheckReturned(t) /\ configured
        /\ loc[t].store_raised = "escaped"
        /\ loc[t].fail_open /\ loc[t].allowed
        /\ RowCount(loc[t].user) > loc[t].limit

\* 00:00 UTC of the day after the UTC date of the run, in epoch seconds.
StartOfNextUtcDay == (UtcDay + 1) * SecondsPerDay

\* The count the check of task t has read from the row before it writes.
CountRead(t) ==
    IF pc[t] = "q_update" THEN loc[t].current_count ELSE RowCount(loc[t].user)

\* C9: a check that read a count at or above the limit and wrote the counter
\* ends the request with 429 carrying X-RateLimit-Limit = limit,
\* X-RateLimit-Remaining = 0, and X-RateLimit-Reset and Retry-After equal to
\* the start of the next UTC day; no upstream call is made and no log entry
\* is enqueued for it.
C9_DeniedAtLimit ==
    [][\A t \in Tasks :
          (/\ pc[t] \in QuotaPcs /\ pc'[t] \notin QuotaPcs
           /\ usage_counters'[loc[t].user] # usage_counters[loc[t].user]
           /\ CountRead(t) >= loc[t].limit) =>
              /\ pc'[t] = "done"
              /\ loc'[t].status = 429
              /\ loc'[t].headers.X_RateLimit_Limit = loc[t].limit
              /\ loc'[t].headers.X_RateLimit_Remaining = 0
              /\ loc'[t].headers.X_RateLimit_Reset = StartOfNextUtcDay
              /\ loc'[t].headers.Retry_After = StartOfNextUtcDay
              /\ loc'[t].invoked = <<"auth", "quota">>
              /\ loc'[t].logged = 0
              /\ queue' = queue]_vars

\* Witness of C9: a request was refused at the limit with Retry-After one day
\* away from the start of the next UTC day.
C9_Witness ==
    \E t \in Tasks :
        /\ pc[t] = "done" /\ loc[t].status = 429
        /\ loc[t].invoked = <<"auth", "quota">>
        /\ loc[t].pre_count >= loc[t].limit
        /\ loc[t].headers.Retry_After # StartOfNextUtcDay

\* C10: while closed failure_count stays below the threshold and counts the
\* failures recorded since the last recorded success; a step from closed to
\* open is a record_failure that brings failure_count to exactly 5, the fifth
\* failure in a row; a record_failure that brings it to 5 opens the breaker;
\* and record_success while closed leaves failure_count at 0.
C10_OpensAtThreshold ==
    [][/\ circuit_breaker.state = "closed" =>
            /\ circuit_breaker.failure_count < failure_threshold
            /\ circuit_breaker.failure_count = consec
       /\ (circuit_breaker.state = "closed" /\ circuit_breaker'.state = "open") =>
            /\ last_op' = "record_failure"
            /\ circuit_breaker'.failure_count = failure_threshold
            /\ consec' = failure_threshold
       /\ (circuit_breaker.state = "closed"
             /\ circuit_breaker'.failure_count >= failure_threshold) =>
            circuit_breaker'.state = "open"
       /\ (circuit_breaker.state = "closed" /\ last_op' = "record_success") =>
            (circuit_breaker'.failure_count = 0
               /\ circuit_breaker'.state = "closed")]_vars

\* Witness of C10: the breaker is open right after the fifth failure in a
\* row was recorded, some time after the start.
C10_Witness ==
    /\ circuit_breaker.state = "open"
    /\ circuit_breaker.failure_count = failure_threshold
    /\ consec = failure_threshold
    /\ last_op = "record_failure"
    /\ now > 0

\* The breaker's state after a query that found the recovery timeout over.
HalfOpened(cb) == [cb EXCEPT !.state = "half_open", !.success_count = 0]

\* C11: an is_open() query on an open breaker made less than recovery_timeout
\* after last_failure_time returns true and changes nothing; a query made at
\* least recovery_timeout after it returns false and moves the breaker to
\* half_open with success_count = 0.
C11_OpenUntilTimeout ==
    [][(circuit_breaker.state = "open"
          /\ last_op' \in {IsOpenOp(TRUE), IsOpenOp(FALSE)}) =>
         IF now - circuit_breaker.last_failure_time < recovery_timeout
         THEN last_op' = IsOpenOp(TRUE) /\ circuit_breaker' = circuit_breaker
         ELSE last_op' = IsOpenOp(FALSE)
                /\ circuit_breaker' = HalfOpened(circuit_breaker)]_vars

\* Witness of C11: a query exactly recovery_timeout after the last failure has
\* returned false and left the breaker half open.
C11_Witness ==
    /\ circuit_breaker.state = "half_open"
    /\ last_op = IsOpenOp(FALSE)
    /\ circuit_breaker.success_count = 0
    /\ now - circuit_breaker.last_failure_time = recovery_timeout

\* C12: in half_open success_count is 0 or 1; the first recorded success
\* counts 1, the second closes the breaker with failure_count and
\* success_count 0; a recorded failure opens it, whatever success_count is.
C12_HalfOpenExits ==
    [][circuit_breaker.state = "half_open" =>
         /\ circuit_breaker.success_count \in {0, 1}
         /\ last_op' = "record_failure" => circuit_breaker'.state = "open"
         /\ (last_op' = "record_success" /\ circuit_breaker.success_count = 0) =>
              /\ circuit_breaker'.state = "half_open"
              /\ circuit_breaker'.success_count = 1
         /\ (last_op' = "record_success" /\ circuit_breaker.success_count = 1) =>
              /\ circuit_breaker'.state = "closed"
              /\ circuit_breaker'.failure_count = 0
              /\ circuit_breaker'.success_count = 0]_vars

\* Witness of C12: the breaker is open again after a failure that was
\* recorded in half_open with one success counted.
C12_Witness ==
    /\ circuit_breaker.state = "open"
    /\ circuit_breaker.success_count = 1
    /\ last_op = "record_failure"

\* C13: closed exactly when failure_count is below the threshold; open has a
\* last_failure_time; half_open is entered only from open, by an is_open()
\* query that returned false at least recovery_timeout after the last failure.
C13_BreakerInvariants ==
    [][/\ circuit_breaker.state = "closed"
            <=> circuit_breaker.failure_count < failure_threshold
       /\ circuit_breaker.state = "open" => circuit_breaker.last_failure_time # None
       /\ (circuit_breaker'.state = "half_open"
             /\ circuit_breaker.state # "half_open") =>
            /\ circuit_breaker.state = "open"
            /\ last_op' = IsOpenOp(FALSE)
            /\ now - circuit_breaker.last_failure_time >= recovery_timeout]_vars

\* Witness of C13: failures were recorded while the breaker was open, and a
\* query after the recovery timeout has left it half open above the threshold.
C13_Witness ==
    /\ circuit_breaker.state = "half_open"
    /\ circuit_breaker.failure_count > failure_threshold
    /\ last_op = IsOpenOp(FALSE)

\* The breaker reports open to a query made now.
ReportsOpen ==
    /\ circuit_breaker.state = "open"
    /\ now - circuit_breaker.last_failure_time < recovery_timeout

\* C15: a call of the client that finds the breaker reporting open raises
\* CircuitBreakerOpenError at once, no request is sent (the call never waits
\* for an answer) and the breaker's fields stay as they are; any other call
\* sends its request.
C15_OpenRaisesUntouched ==
    [][\A t \in Tasks :
          (pc[t] = "up_call" /\ pc'[t] # "up_call") =>
             IF ReportsOpen
             THEN /\ pc'[t] = ret[t]
                  /\ loc'[t].up_result = "CircuitBreakerOpenError"
                  /\ loc'[t].attempt = loc[t].attempt
                  /\ circuit_breaker' = circuit_breaker
             ELSE /\ pc'[t] = "up_wait"
                  /\ loc'[t].up_result = "none"]_vars

\* Witness of C15: a call was refused by the open breaker, which still holds
\* the five failures that opened it.
C15_Witness ==
    \E t \in Tasks :
        /\ pc[t] = "idle"
        /\ loc[t].up_result = "CircuitBreakerOpenError"
        /\ circuit_breaker.state = "open"
        /\ circuit_breaker.failure_count = failure_threshold
        /\ circuit_breaker.success_count = 0

\* The failures chat_completions retries.
Retryable(e) ==
    \/ e.kind = "timeout"
    \/ e.kind = "response" /\ e.status \in {502, 503, 504}

\* Task t retries: it takes a step that leaves it waiting for an answer.
Retries(t) ==
    /\ pc[t] = "up_wait" /\ pc'[t] = "up_wait"
    /\ loc'[t] # loc[t]

\* C17: a call makes at most two attempts; the second attempt follows a first
\* one that ended in 502, 503 or 504 or in a timeout / connect error, and the
\* end of the second attempt ends the call.
C17_AtMostOneRetry ==
    [][\A t \in Tasks :
          /\ loc[t].attempt \in {0, 1}
          /\ Retries(t) =>
               /\ loc[t].attempt = 0
               /\ loc'[t].attempt = 1
               /\ Retryable(loc'[t].last_error)
          /\ loc[t].attempt = 1 => ~Retries(t)
          /\ (pc[t] = "up_wait" /\ pc'[t] # "up_wait"
                /\ loc'[t].up_result = "HTTPStatusError"
                /\ ~Retryable(loc'[t].last_error)) =>
               loc'[t].attempt = loc[t].attempt]_vars

\* Witness of C17: a call ended in failure on its second attempt, after a
\* first attempt that was retried.
C17_Witness ==
    \E t \in Tasks :
        /\ pc[t] = "idle"
        /\ loc[t].attempt = 1
        /\ loc[t].up_result \in {"HTTPStatusError", "TimeoutException"}

\* C18: the step that ends a call which contacted the upstream records
\* exactly one result in the breaker: a success when the call returns, a
\* failure (failure_count one more, last_failure_time now) when it raises;
\* a retried attempt records nothing; and a success recorded in closed state
\* leaves failure_count at 0.
C18_OneRecordPerCall ==
    [][\A t \in Tasks :
          /\ Retries(t) => circuit_breaker' = circuit_breaker
          /\ (pc[t] = "up_wait" /\ pc'[t] # "up_wait") =>
               IF loc'[t].up_result = "ok"
               THEN /\ last_op' = "record_success"
                    /\ circuit_breaker'.failure_count =
                         IF circuit_breaker.state = "closed" THEN 0
                         ELSE circuit_breaker.failure_count
                    /\ circuit_breaker'.last_failure_time =
                         circuit_breaker.last_failure_time
               ELSE /\ circuit_breaker'.failure_count =
                         circuit_breaker.failure_count + 1
                    /\ circuit_breaker'.last_failure_time = now]_vars

\* C14: once the upstream has recovered, with the clock advancing and
\* requests arriving, an open breaker eventually is closed again.
C14_EventuallyClosed ==
    (circuit_breaker.state = "open") ~> (circuit_breaker.state = "closed")

\* Witness of C14: after the recovery timeout the breaker is half open with
\* one success of the recovered upstream counted.
C14_Witness ==
    /\ circuit_breaker.state = "half_open"
    /\ circuit_breaker.success_count = 1
    /\ now >= circuit_breaker.last_failure_time + recovery_timeout
    /\ \E t \in Tasks : pc[t] = "idle" /\ loc[t].up_result = "ok"

\* C16: with the breaker open after five failures in a row, a request that
\* passed auth, quota and stage resolution (and took its slot, when
\* streaming) is answered 503 with type service_unavailable_error, and no
\* request waits for an answer of the upstream.
C16_OpenAnswers503 ==
    \A t \in Tasks :
        /\ pc[t] # "up_wait"
        /\ (pc[t] = "done" /\ loc[t].invoked # << >>
              /\ loc[t].invoked[Len(loc[t].invoked)] = "upstream") =>
             /\ loc[t].status = 503
             /\ loc[t].error_type = "service_unavailable_error"

\* C19: a request whose upstream call failed with a transient failure that
\* outlasted the retry is answered 503, one whose upstream call failed with
\* a status that is not retried is answered 502, both with an error of the
\* OpenAI envelope.
C19_FailureStatuses ==
    \A t \in Tasks :
        pc[t] = "done" =>
            /\ loc[t].failure = "transient" =>
                 (loc[t].status = 503
                    /\ loc[t].error_type = "service_unavailable_error")
            /\ loc[t].failure = "permanent" =>
                 (loc[t].status = 502 /\ loc[t].error_type = "upstream_error")

\* The reasons authenticate gives when the lookup of the key could not be
\* made: the store is not configured, or the query raised.
StoreFailureReasons ==
    {"Authentication service unavailable", "Authentication service error"}

\* C20: a request refused because the key lookup failed is answered 401 with
\* a reason and an error code that both differ from those of a request
\* refused because the key has no active row.
C20_StoreFailureDistinct ==
    \A t, s \in Tasks :
        (/\ pc[t] = "done" /\ ~loc[t].authenticated
         /\ loc[t].error \in StoreFailureReasons
         /\ pc[s] = "done" /\ ~loc[s].authenticated
         /\ loc[s].error = "Invalid API key") =>
            /\ loc[t].status = 401 /\ loc[s].status = 401
            /\ loc[t].error # loc[s].error
            /\ loc[t].code # loc[s].code

\* C21: a request whose key has no active row in api_keys (no record, or a
\* record that is revoked) ends at require_auth with 401 and code
\* invalid_api_key; the step changes no usage counter, takes no slot, sends
\* nothing upstream and enqueues no log record.
C21_UnknownKeyRefused ==
    [][\A t \in Tasks :
          (loc'[t] # loc[t] /\ loc'[t].error = "Invalid API key") =>
              /\ pc'[t] = "done"
              /\ loc'[t].status = 401
              /\ loc'[t].code = "invalid_api_key"
              /\ loc'[t].invoked = <<"auth">>
              /\ ~loc'[t].slot_acquired /\ loc'[t].logged = 0
              /\ UNCHANGED <<usage_counters, completed, active_streams,
                             queue, circuit_breaker>>]_vars

\* Witness of C21: a request refused for its key while another request of
\* the same process has been charged to its user's counter.
C21_Witness ==
    \E t \in Tasks :
        /\ pc[t] = "done" /\ loc[t].error = "Invalid API key"
        /\ loc[t].status = 401
        /\ \E u \in Users : usage_counters[u] # None

\* C22: a non-streaming request that passed every gate and whose upstream
\* answered below 400 is answered 200 with the X-CFX-Stage and
\* X-CFX-Model-Used headers of its stage and the three X-RateLimit values
\* of its quota decision.
C22_NonStreamingSuccess ==
    \A t \in Tasks :
        (pc[t] = "done" /\ ~loc[t].is_streaming /\ loc[t].failure = "answered") =>
            /\ loc[t].status = 200
            /\ loc[t].headers =
                  [NoHeaders EXCEPT
                      !.X_RateLimit_Limit = loc[t].limit,
                      !.X_RateLimit_Remaining = loc[t].remaining,
                      !.X_RateLimit_Reset = loc[t].reset_timestamp,
                      !.X_CFX_Stage = loc[t].stage,
                      !.X_CFX_Model_Used = get_model_for_stage(loc[t].stage)]

\* C23: a request that reached the upstream stage has asked, when it is
\* over, for exactly one log record to be enqueued.
C23_OneLogRecord ==
    \A t \in Tasks :
        (/\ pc[t] = "done" /\ loc[t].invoked # << >>
         /\ loc[t].invoked[Len(loc[t].invoked)] = "upstream") =>
            loc[t].logged = 1

\* The tasks in a sequence of tasks.
Range(q) == {q[i] : i \in 1..Len(q)}

\* C28: the queue never holds more than maxlen tasks; a call of enqueue on a
\* full queue returns false and leaves the queue as it was, a call on a queue
\* that is not full returns true and puts the task at the tail.
C28_EnqueueBounded ==
    /\ [](Len(queue) <= maxlen)
    /\ [][offered' # offered =>
             IF Len(queue) >= maxlen
             THEN returned' = FALSE /\ queue' = queue
             ELSE returned' = TRUE /\ queue' = Append(queue, offered')]_vars

\* Witness of C28: a task was refused by the full queue while the worker
\* had already taken tasks from it.
C28_Witness ==
    /\ offered > 0
    /\ returned = FALSE
    /\ Len(queue) = maxlen
    /\ started # << >>
    /\ offered \notin Range(queue) \cup Range(started)

\* C29: no task is awaited twice; when the awaited task ends, raising or
\* not, the worker is back at the head of its loop and the queue is as it
\* was; and a task in the queue is awaited in the end unless the queue is
\* stopped.
C29_FailureDoesNotStopWorker ==
    /\ [](\A i, j \in 1..Len(started) : started[i] = started[j] => i = j)
    /\ [][(worker_task = "task" /\ worker_task' # "task") =>
             (worker_task' = "loop" /\ queue' = queue /\ started' = started)]_vars
    /\ \A id \in 1..MaxEnqueues :
          (id \in Range(queue)) ~> (id \in Range(started) \/ ~running)

\* Witness of C29: a task raised and the task queued behind it has been
\* awaited since, the queue still running.
C29_Witness ==
    /\ running
    /\ \E i \in 1..Len(outcomes) :
          /\ outcomes[i] = "raised"
          /\ Len(started) > i
          /\ started[i + 1] = started[i] + 1

\* C30: once stop() has been called the worker takes no task from the
\* queue; stop() has returned only when the worker is over, and it does
\* return.
C30_StopDiscards ==
    /\ [][(lifespan \in {"stopping", "stopped"}) =>
             (started' = started /\ Len(queue) <= Len(queue'))]_vars
    /\ [](lifespan = "stopped" => worker_task = "ended")
    /\ (lifespan = "stopping") ~> (lifespan = "stopped")

\* Witness of C30: stop() has returned, tasks were awaited before it and
\* tasks are left in the queue.
C30_Witness ==
    /\ lifespan = "stopped"
    /\ started # << >>
    /\ Len(outcomes) = Len(started)
    /\ queue # << >>

\* C27 as stated: for every non-empty token t the call on "Bearer " + t
\* returns t.
C27_ExtractBearer ==
    \A t \in Tokens \ {<< >>} :
        (authorization_header = BearerPrefix \o t /\ api_key # Pending) =>
            api_key = t

\* C27 amended: for every non-empty token t that neither starts nor ends
\* with whitespace the call on "Bearer " + t returns t; for a missing header,
\* a header that does not start with "Bearer " exactly, and a token that is
\* empty or whitespace only, it returns none.
C27_ExtractBearerTrimmed ==
    api_key # Pending =>
        /\ \A t \in Tokens \ {<< >>} :
              (/\ authorization_header = BearerPrefix \o t
               /\ t[1] \notin Whitespace /\ t[Len(t)] \notin Whitespace) =>
                  api_key = t
        /\ (\/ authorization_header = Absent
            \/ ~StartsWith(authorization_header, BearerPrefix)
            \/ \A i \in 8..Len(authorization_header) :
                  authorization_header[i] \in Whitespace) =>
               api_key = Absent

\* Witness of C27: the call has returned the token of a header whose token
\* has a space inside and none at its ends.
C27_Witness ==
    /\ api_key = <<"k", " ", "k">>
    /\ authorization_header = BearerPrefix \o api_key

\* C26: parsing the lines of format_sse_event(x), format_sse_event(y) and
\* format_sse_done() yields x, y and the done event, in this order and
\* nothing else.
C26_FrameParseRoundTrip ==
    events # Unparsed => events = <<data[1], data[2], DoneEvent>>

\* Witness of C26: the round trip was made for an object whose string holds
\* a line end, followed by an object with two items.
C26_Witness ==
    /\ events # Unparsed
    /\ Len(events) = 3
    /\ data[1] = JObj(<< <<<<"a">>, JStr(<<"x", NL, "y">>)>> >>)
    /\ Len(data[2].val) = 2
    /\ Len(Lines(wire)) > 3

\* The events a client reads from the frames it was sent.
ClientEvents(t) ==
    LET RECURSIVE Joined(_)
        Joined(frames) ==
            IF frames = << >> THEN << >> ELSE Head(frames) \o Joined(Tail(frames))
    IN parse_sse_stream(Lines(Joined(loc[t].sent)))

\* The events of the upstream lines read so far: the done line and the data
\* lines that hold JSON, in their order.
UpstreamEvents(t) ==
    LET read == SubSeq(loc[t].upstream, 1,
                       Len(loc[t].upstream) - Len(loc[t].lines))
        IsEvent(line) ==
            /\ StartsWith(line, DataPrefix)
            /\ \/ From(line, 6) = DoneToken
               \/ json_loads(From(line, 6)).ok
        RECURSIVE Events(_)
        Events(ls) ==
            IF ls = << >> THEN << >>
            ELSE (IF IsEvent(Head(ls))
                  THEN <<IF From(Head(ls), 6) = DoneToken
                         THEN DoneEvent ELSE json_loads(From(Head(ls), 6)).val>>
                  ELSE << >>) \o Events(Tail(ls))
    IN Events(read)

\* C24: at every moment of a streaming request the frames sent to the
\* client hold, one frame for one event and in the same order, exactly the
\* events of the upstream lines read so far; comment lines, empty lines and
\* data lines that are not JSON leave no frame.
C24_ForwardedInOrder ==
    \A t \in Tasks :
        /\ ClientEvents(t) = UpstreamEvents(t)
        /\ Len(loc[t].sent) = Len(UpstreamEvents(t))

\* Witness of C24: a stream of a comment, an event, a line that is not JSON
\* and another event was read to its end, and two frames were sent.
C24_Witness ==
    \E t \in Tasks :
        /\ pc[t] = "done" /\ loc[t].stream_end = "exhausted"
        /\ Len(loc[t].upstream) = MaxLines
        /\ Len(loc[t].sent) = 2
        /\ loc[t].sent[1] # loc[t].sent[2]
        /\ \E i \in 1..MaxLines : loc[t].upstream[i] = DataPrefix \o <<"{", "a">>

\* C25: in a response in which the done frame was sent it was sent once
\* and no frame follows it, and when the stream was read to its end the
\* success record was enqueued once.
C25_DoneIsLast ==
    \A t \in Tasks :
        LET sent == loc[t].sent IN
        /\ \A i \in 1..Len(sent) : sent[i] = format_sse_done => i = Len(sent)
        /\ (/\ pc[t] = "done" /\ loc[t].stream_end = "exhausted"
            /\ \E i \in 1..Len(sent) : sent[i] = format_sse_done) =>
               loc[t].logged = 1

\* ------------------------------------------------------------------------
\* Claims C31 .. C40
\* ------------------------------------------------------------------------

\* The limit check_rate_limit works with when the store answers the lookup.
StoredLimit(u) == get_daily_limit(u, TRUE)

\* C37: a returned quota check has charged the bucket of the current UTC
\* date, and its reset timestamp is 00:00 UTC of the day after that date,
\* whatever the local date of the process is.
C37_UtcBucket ==
    \A t \in Tasks :
        CheckReturned(t) =>
            /\ loc[t].day_utc = UtcDay
            /\ loc[t].reset_timestamp = (loc[t].day_utc + 1) * SecondsPerDay

\* The case of C37: a check the store answered has returned in a process
\* whose local date is not the UTC date.
C37_Witness ==
    \E t \in Tasks :
        CheckReturned(t) /\ ~loc[t].fail_open /\ day_offset # 0

\* Task t's check is the one the store answered right after that of task s,
\* for the same user, both allowed, both with the user's stored limit.
Consecutive(s, t) ==
    /\ s # t
    /\ CheckReturned(s) /\ CheckReturned(t)
    /\ loc[s].user = loc[t].user
    /\ ~loc[s].fail_open /\ ~loc[t].fail_open
    /\ loc[s].allowed /\ loc[t].allowed
    /\ loc[s].limit = StoredLimit(loc[s].user)
    /\ loc[t].limit = StoredLimit(loc[t].user)
    /\ loc[t].seq = loc[s].seq + 1

\* C32: of two consecutive allowed requests of one user in the same UTC day,
\* with the store reachable and no other request of that user between them,
\* the second one's X-RateLimit-Remaining is one less than the first one's.
C32_RemainingStepsDown ==
    \A s, t \in Tasks :
        Consecutive(s, t) => loc[t].remaining = loc[s].remaining - 1

\* The case of C32: two consecutive allowed checks of one user have returned.
C32_Witness ==
    \E s, t \in Tasks : Consecutive(s, t)

\* What the client of task t's request sees.
Response(t) ==
    [status |-> loc[t].status, headers |-> loc[t].headers, sent |-> loc[t].sent]

\* The record of a streaming request of u1.
RecordOfU1 == [user_id |-> "u1", status |-> "success"]

\* C31: no logging outcome changes or fails the response: the step that
\* hands the record to log_request leaves the response as it was and goes on
\* with the stream whether the record is queued or dropped, and the worker's
\* steps (the write of a record returning or raising) change no request.
C31_LoggingNeverAltersResponse ==
    [][/\ \A t \in Tasks :
             loc'[t].logged # loc[t].logged =>
                 /\ Response(t)' = Response(t)
                 /\ loc'[t] = [loc[t] EXCEPT !.logged = @ + 1]
                 /\ pc'[t] = "gen_running"
       /\ (started' # started \/ outcomes' # outcomes) =>
             (pc' = pc /\ loc' = loc)]_vars

\* The case of C31: a request's record was dropped because the queue was
\* full, another one's write raised, and the stream was delivered to its end.
C31_Witness ==
    /\ loc[1].logged = 1
    /\ pc[1] = "done"
    /\ loc[1].stream_end = "exhausted"
    /\ Len(queue) = maxlen
    /\ \A i \in 1..Len(queue) : queue[i] # RecordOfU1
    /\ \A i \in 1..Len(started) : started[i] # RecordOfU1
    /\ loc[1].sent # << >>

\* A second case of C31: the write of the request's own record raised.
C31_WriteFailed ==
    \E i \in 1..Len(outcomes) :
        /\ started[i] = RecordOfU1
        /\ outcomes[i] = "raised"
        /\ pc[1] = "done"

\* Task t's streaming request was answered 429 because acquire_stream_slot
\* found the user's active streams at the cap it had resolved (loc[t].cap).
SlotDenied(t) ==
    /\ pc[t] = "done"
    /\ loc[t].status = 429
    /\ loc[t].is_streaming
    /\ ~loc[t].slot_acquired
    /\ loc[t].cap # 0

\* C34: the 429 of a refused slot carries the user's resolved streaming cap
\* as X-RateLimit-Limit and 0 as X-RateLimit-Remaining.
C34_SlotDeniedHeaders ==
    \A t \in Tasks :
        SlotDenied(t) =>
            /\ loc[t].headers.X_RateLimit_Limit = loc[t].cap
            /\ loc[t].headers.X_RateLimit_Remaining = 0

\* The case of C34: a slot was refused to a user whose cap, resolved from
\* the users table, is not the default one.
C34_Witness ==
    \E t \in Tasks :
        /\ SlotDenied(t)
        /\ loc[t].cap = get_user_cap(loc[t].user, TRUE)
        /\ loc[t].cap # default_cap

\* The iteration of task t's stream_response, over a stream the upstream
\* answered 2xx, has come to its end.
Iterated(t) ==
    /\ pc[t] = "done"
    /\ loc[t].is_streaming
    /\ loc[t].failure = "answered"
    /\ loc[t].releases = 1

\* C33: the line iterator of a streaming call answered 2xx is read over an
\* open connection: its iteration ends because the upstream has no more
\* lines or because the caller stopped, never because the connection was
\* closed before the caller had read the lines.
C33_OpenWhileIterated ==
    \A t \in Tasks :
        Iterated(t) => loc[t].stream_end \in {"exhausted", "disconnected"}

\* The case of C33: the upstream answered a streaming call 2xx and the
\* framework iterated the generator that was returned.
C33_Witness ==
    \E t \in Tasks : Iterated(t) /\ loc[t].model_used # NoModel

\* The stage chat_completions works with for a value of the header.
StageOf(x_cfx_stage) ==
    IF x_cfx_stage = "" THEN get_default_stage ELSE x_cfx_stage

\* C35: for a request whose body passed validation the stage is the
\* X-CFX-Stage header or, without one, the default stage; stage direct and a
\* stage without a model are answered 400 before any slot or upstream call;
\* for any other stage the model sent upstream is the stage's configured
\* model and never the client's.
C35_StageRouting ==
    \A t \in Tasks :
        loc[t].x_cfx_stage # "unread" =>
            LET stage == StageOf(loc[t].x_cfx_stage) IN
            IF stage = "direct" \/ get_model_for_stage(stage) = NoModel
            THEN /\ pc[t] = "done" /\ loc[t].status = 400
                 /\ loc[t].invoked = <<"auth", "quota", "stage">>
                 /\ ~loc[t].slot_acquired
                 /\ loc[t].payload_model = NoModel
            ELSE /\ loc[t].stage = stage
                 /\ loc[t].model_used = get_model_for_stage(stage)
                 /\ loc[t].payload_model = get_model_for_stage(stage)
                 /\ loc[t].payload_model # ClientModel

\* The case of C35: one request was refused for stage direct or an unknown
\* stage, and another one, sent without the header, reached the upstream
\* with the model of the default stage.
C35_Witness ==
    \E s, t \in Tasks :
        /\ loc[s].x_cfx_stage \in {"direct", "bogus"} /\ loc[s].status = 400
        /\ loc[t].x_cfx_stage = ""
        /\ Len(loc[t].invoked) >= 4
        /\ loc[t].invoked[Len(loc[t].invoked)] = "upstream"
        /\ loc[t].payload_model = get_model_for_stage(get_default_stage)

\* The requests of user u that hold a slot.
Held(u) == {t \in Tasks : loc[t].user = u /\ Holds(t)}

\* C39: in every reachable state the ledger value of every user is the
\* number of that user's streaming requests that have acquired a slot and
\* not yet released it, under any interleaving of acquire_stream_slot,
\* release_stream_slot and cleanup_user.
C39_LedgerCountsHeld ==
    \A u \in Users : active_streams[u] = Cardinality(Held(u))

\* The case of C39: a request holds a slot while another request of the
\* same user has acquired and released one.
C39_Witness ==
    \E s, t \in Tasks :
        /\ s # t
        /\ loc[s].user = loc[t].user
        /\ Holds(s) /\ pc[s] = "idle"
        /\ loc[t].slot_acquired /\ loc[t].releases = 1

\* The quota check of task t returns in this step.
CheckReturns(t) == pc[t] \in QuotaPcs /\ pc'[t] \notin QuotaPcs

\* C38: every authenticated request charges the daily counter exactly once
\* and is never refunded: the quota check leaves the user's counter one above
\* what it was, and no step of any request lowers a counter.
C38_ChargedOnce ==
    [][/\ \A t \in Tasks :
             CheckReturns(t) =>
                 usage_counters'[loc[t].user] = RowCount(loc[t].user) + 1
       /\ \A u \in Users :
             usage_counters[u] # None =>
                 (usage_counters'[u] # None /\ usage_counters'[u] >= usage_counters[u])
      ]_vars

\* C38 for the checks the store answered only (no fail-open return).
C38_AnsweredChargedOnce ==
    [][\A t \in Tasks :
          (CheckReturns(t) /\ ~loc'[t].fail_open) =>
              usage_counters'[loc[t].user] = RowCount(loc[t].user) + 1]_vars

\* The case of C38: a check has returned after the fallback wrote the count
\* it had read plus one while another router had charged the same bucket.
C38_Witness ==
    \E t \in Tasks :
        /\ CheckReturned(t) /\ ~loc[t].fail_open
        /\ loc[t].rpc_raised
        /\ loc[t].post_stored = loc[t].pre_count + 1
        /\ usage_counters[loc[t].user] = loc[t].post_stored
        /\ completed[loc[t].user] > loc[t].post_stored

\* The _worker tasks that are executing a task they took from the queue.
Processing ==
    (IF worker_task = "task" THEN 1 ELSE 0)
      + Cardinality({i \in 1..Len(old_workers) : old_workers[i] = "task"})

\* C36: for every interleaving of start() and stop() at most one consumer
\* task is processing the queue at any time; a start() issued while stop()
\* still waits for the old worker does not leave two workers running.
C36_OneConsumer == Processing <= 1

\* The case of C36: start() was called after stop() while the worker stop()
\* waits for had not ended, and tasks wait in the queue.
C36_Witness ==
    /\ running
    /\ \E i \in 1..Len(old_workers) : Alive(old_workers[i])
    /\ Alive(worker_task)
    /\ queue # << >>

\* C40: the digest authentication looks up is the hash of exactly the token
\* extract_bearer_token returned for the header: the token is not altered
\* between extraction and hashing.
C40_HashOfExtractedToken ==
    (key_hash # Pending /\ api_key # Absent) =>
        key_hash = hash_api_key(extract_bearer_token(authorization_header))

\* The case of C40: a digest was computed for a header whose token begins
\* with "Bearer " itself.
C40_Witness ==
    /\ key_hash \notin {Pending, Absent}
    /\ StartsWith(api_key, BearerPrefix)

\* The case of C40 for an ordinary token: its digest is that of the token.
C40_PlainToken ==
    /\ key_hash = hash_api_key(api_key)
    /\ api_key = <<"k", " ", "k">>

====
